---- MODULE Spec2Model ----
(***************************************************************************)
(* A model of the document storage, retrieval and caching engine:          *)
(*   - RedisVectorStore   (src/src/vector_stores/redis_vector_store.py)    *)
(*   - InMemoryVectorStore (src/src/vector_stores/in_memory_vector_store.py)*)
(*   - RedisRateLimiter, RedisQueryCache (src/src/cache/query_cache.py)    *)
(*   - RecursiveCharacterTextSplitter (src/src/text_splitters/)            *)
(*   - RetrievalService.query (src/api/services/retrieval.py)              *)
(* The Redis server is one keyspace shared by every component.  A caller   *)
(* that writes takes one step per backend round trip; a pipeline is       *)
(* applied as one step (MULTI/EXEC).  The sources set PREFIX, DOC_PREFIX,   *)
(* DEFAULT_SEPARATORS, SUPPORTED_EXTENSIONS, ... at module level and read  *)
(* them through self: the instance and its classes bind no such name, so   *)
(* the read raises AttributeError and ends the call that makes it.         *)
(***************************************************************************)
EXTENDS Integers, Sequences, FiniteSets, TLC

VARIABLES
    redis,      \* the Redis server: [data: key -> value, ttl: key -> seconds left]
    next_uuid,  \* how many ids uuid.uuid4() has handed out
    proc,       \* per caller: the position inside the call it is executing
    ret,        \* the last call that completed, its caller and what it returned
    mem,        \* the InMemoryVectorStore object: [documents, embeddings, ids]
    limiter,    \* the RedisRateLimiter object: [max_requests, window_seconds]
    allowed,    \* history: per identifier, is_allowed calls that returned True
                \* since the identifier's counter was last absent
    splitter,   \* the RecursiveCharacterTextSplitter object, once built
    split_ret,  \* the split_text call made: [called, text, chunks]
    svc,        \* the settings RetrievalService reads
    svc_ret,    \* the last RetrievalService.query call and its result
    cache_ret,  \* the last call made on a cache object directly, and its result
    cache_log   \* history: per entry written through a cache object, the value
                \* and the seconds its writer asked it to live that are left

vars == <<redis, next_uuid, proc, ret, mem, limiter, allowed, splitter, split_ret, svc, svc_ret,
          cache_ret, cache_log>>

\* the state written out: it changes exactly when a variable does, and two
\* of them can always be compared (the argument recorded for one call may
\* be a sequence and for the next a string)
state_text == ToString(vars)

(***************************************************************************)
(* Bounds of the model.                                                    *)
(***************************************************************************)
MaxIds == 2        \* ids uuid4 hands out to a sequential caller
MaxConcIds == 2    \* ids uuid4 hands out to concurrent callers
MaxBatch == 2      \* longest documents / embeddings list of one add_documents call
MaxDelete == 2     \* longest ids list of one delete call
MaxRequests == 5   \* largest max_requests a limiter is built with
MaxWindow == 3     \* largest window_seconds a limiter is built with
MaxChunk == 4      \* largest chunk_size (and chunk_overlap) a splitter is built with
MaxLen == 5        \* longest text handed to split_text
MaxTtl == 3        \* longest cache TTL the service is configured with
MaxSvcIds == 2     \* ids uuid4 hands out while the service is queried
MaxQueries == 3    \* query calls made on one service object

None == "None"     \* Python's None

Procs == {"p1", "p2"}   \* concurrent callers sharing the backend
SeqProcs == {"p1"}      \* the single sequential caller

AttributeError == "AttributeError"

\* self.<name>: the attributes of the instance, then the names bound in the
\* bodies of its class and of the classes it inherits from.  self is the
\* record of the names so bound; any other name raises AttributeError.
getattr(self, name) == IF name \in DOMAIN self THEN self[name] ELSE AttributeError

\* an f-string: its parts are evaluated left to right and the first one that
\* raises ends the evaluation
RECURSIVE fstring(_)
fstring(parts) ==
    IF parts = <<>> THEN ""
    ELSE IF Head(parts) = AttributeError THEN AttributeError
    ELSE LET rest == fstring(Tail(parts))
         IN IF rest = AttributeError THEN AttributeError ELSE Head(parts) \o rest

Min(a, b) == IF a < b THEN a ELSE b
Max(a, b) == IF a > b THEN a ELSE b

Range(s) == {s[i] : i \in DOMAIN s}

\* every sequence over S of length 0..n
SeqsUpTo(S, n) == UNION {[1..m -> S] : m \in 0..n}

\* every order in which the members of a Python set can be iterated
Perms(S) == {f \in [1..Cardinality(S) -> S] : \A i, j \in 1..Cardinality(S) : f[i] = f[j] => i = j}

(***************************************************************************)
(* The Redis server.  db is [data, ttl].  A set that loses its last member *)
(* stops existing, SET clears a key's TTL, INCR of a missing key creates   *)
(* it at 1 with no TTL.                                                    *)
(***************************************************************************)
EmptyDb == [data |-> [k \in {} |-> None], ttl |-> [k \in {} |-> 0]]

Drop(f, k) == [x \in DOMAIN f \ {k} |-> f[x]]
Put(f, k, v) == [x \in DOMAIN f \cup {k} |-> IF x = k THEN v ELSE f[x]]

r_exists(db, key) == key \in DOMAIN db.data

r_set(db, key, value) == [data |-> Put(db.data, key, value), ttl |-> Drop(db.ttl, key)]

r_setex(db, key, seconds, value) ==
    [data |-> Put(db.data, key, value), ttl |-> Put(db.ttl, key, seconds)]

r_del(db, key) == [data |-> Drop(db.data, key), ttl |-> Drop(db.ttl, key)]

r_get(db, key) == IF r_exists(db, key) THEN db.data[key] ELSE None

\* int(text) and str(n) on the counters of the model: the decimal texts of
\* 0..MaxCount
MaxCount == 99
str(n) == ToString(n)
int(text) == CHOOSE n \in 0..MaxCount : str(n) = text

\* a value INCR can count on: the decimal text of an integer (a string,
\* told from a set or a serialised value by the way it is written out)
Integers_written == {ToString(str(n)) : n \in 0..MaxCount}
is_integer(value) == ToString(value) \in Integers_written

\* INCR: a missing key counts from 0 and gets no TTL, an existing key keeps its TTL
r_incr(db, key) ==
    [data |-> Put(db.data, key, IF r_exists(db, key) THEN str(int(db.data[key]) + 1) ELSE str(1)),
     ttl |-> db.ttl]

r_smembers(db, key) == IF r_exists(db, key) THEN db.data[key] ELSE {}

r_sadd(db, key, member) ==
    [data |-> Put(db.data, key, r_smembers(db, key) \cup {member}), ttl |-> db.ttl]

r_srem(db, key, member) ==
    IF r_smembers(db, key) \ {member} = {}
    THEN r_del(db, key)
    ELSE [data |-> Put(db.data, key, r_smembers(db, key) \ {member}), ttl |-> db.ttl]

r_scard(db, key) == Cardinality(r_smembers(db, key))

\* EXPIRE: a key that exists gets the TTL (and is deleted by a TTL that is not
\* positive); the value stays
r_expire(db, key, seconds) ==
    IF ~r_exists(db, key) THEN db
    ELSE IF seconds <= 0 THEN r_del(db, key)
    ELSE [data |-> db.data, ttl |-> Put(db.ttl, key, seconds)]

\* DEL of several keys at once
r_del_keys(db, keys) ==
    [data |-> [key \in DOMAIN db.data \ keys |-> db.data[key]],
     ttl |-> [key \in DOMAIN db.ttl \ keys |-> db.ttl[key]]]

\* the printable characters in the order of their codes, for the ranges of a
\* pattern's classes (without the grave accent, which no string here holds)
Codes ==
    " !\"#$%&'()*+,-./0123456789:;<=>?@ABCDEFGHIJKLMNOPQRSTUVWXYZ[\\]^_abcdefghijklmnopqrstuvwxyz{|}~"

code(c) == IF \E i \in 1..Len(Codes) : SubSeq(Codes, i, i) = c
           THEN CHOOSE i \in 1..Len(Codes) : SubSeq(Codes, i, i) = c
           ELSE 0

\* c lies between the two ends of a range a-z, given in either order
in_range(first, last, c) ==
    /\ code(c) >= Min(code(first), code(last))
    /\ code(c) <= Max(code(first), code(last))

\* a pattern without the stars it begins with
RECURSIVE skip_stars(_)
skip_stars(pattern) ==
    IF pattern # "" /\ SubSeq(pattern, 1, 1) = "*"
    THEN skip_stars(SubSeq(pattern, 2, Len(pattern)))
    ELSE pattern

\* the class that follows "[" (and "^"), matched against the character c:
\* whether a member matched, and the pattern after the closing "]"
RECURSIVE class_scan(_, _, _)
class_scan(pattern, c, matched) ==
    IF Len(pattern) >= 2 /\ SubSeq(pattern, 1, 1) = "\\"
    THEN class_scan(SubSeq(pattern, 3, Len(pattern)), c, matched \/ SubSeq(pattern, 2, 2) = c)
    ELSE IF pattern = "" THEN [matched |-> matched, rest |-> ""]
    ELSE IF SubSeq(pattern, 1, 1) = "]"
    THEN [matched |-> matched, rest |-> SubSeq(pattern, 2, Len(pattern))]
    ELSE IF Len(pattern) >= 3 /\ SubSeq(pattern, 2, 2) = "-"
    THEN class_scan(SubSeq(pattern, 4, Len(pattern)), c,
                    matched \/ in_range(SubSeq(pattern, 1, 1), SubSeq(pattern, 3, 3), c))
    ELSE class_scan(SubSeq(pattern, 2, Len(pattern)), c, matched \/ SubSeq(pattern, 1, 1) = c)

\* the server's glob matching of a key against a pattern: * any run of
\* characters, ? any one character, [...] a class, \ the next character as it is
RECURSIVE glob_match(_, _)
glob_match(pattern, string) ==
    IF pattern = "" \/ string = "" THEN skip_stars(pattern) = "" /\ string = ""
    ELSE LET first == SubSeq(pattern, 1, 1)
             c == SubSeq(string, 1, 1)
             later == SubSeq(string, 2, Len(string))
             \* what is left to match once c is consumed
             after(rest) == IF later = "" THEN skip_stars(rest) = "" ELSE glob_match(rest, later)
         IN IF first = "*"
            THEN LET rest == skip_stars(pattern)
                 IN rest = "" \/ \E i \in 1..Len(string) :
                                     glob_match(rest, SubSeq(string, i, Len(string)))
            ELSE IF first = "?" THEN after(SubSeq(pattern, 2, Len(pattern)))
            ELSE IF first = "["
            THEN LET negated == Len(pattern) >= 2 /\ SubSeq(pattern, 2, 2) = "^"
                     class == class_scan(SubSeq(pattern, IF negated THEN 3 ELSE 2, Len(pattern)),
                                         c, FALSE)
                 IN (class.matched # negated) /\ after(class.rest)
            ELSE IF first = "\\" /\ Len(pattern) >= 2
            THEN SubSeq(pattern, 2, 2) = c /\ after(SubSeq(pattern, 3, Len(pattern)))
            ELSE first = c /\ after(SubSeq(pattern, 2, Len(pattern)))

\* KEYS pattern: the keys the pattern matches
r_keys(db, pattern) ==
    IF pattern = "*" THEN DOMAIN db.data
    ELSE {key \in DOMAIN db.data : glob_match(pattern, key)}

\* one queued command of a pipeline
r_apply(db, cmd) ==
    CASE cmd[1] = "SET" -> r_set(db, cmd[2], cmd[3])
      [] cmd[1] = "SADD" -> r_sadd(db, cmd[2], cmd[3])
      [] cmd[1] = "SREM" -> r_srem(db, cmd[2], cmd[3])
      [] cmd[1] = "DEL" -> r_del(db, cmd[2])

\* pipe.execute(): the queued commands in order, nothing of another caller between
RECURSIVE pipe_execute(_, _)
pipe_execute(db, pipe) ==
    IF pipe = <<>> THEN db ELSE pipe_execute(r_apply(db, Head(pipe)), Tail(pipe))

(***************************************************************************)
(* json.dumps / json.loads of a record: the stored value is the serialised *)
(* form, which is not the dict itself.                                      *)
(***************************************************************************)
json_dumps(value) == [json |-> value]
json_loads(text) == text.json

(***************************************************************************)
(* RedisVectorStore: keys.  PREFIX, DOC_PREFIX, COLLECTION_IDX, SOURCE_IDX  *)
(* and ALL_DOCS_KEY are names of the module (lines 15-19); __init__ binds   *)
(* self.redis and the class bodies bind methods only.                      *)
(***************************************************************************)
VS_PREFIX == "rag"
DOC_PREFIX == "doc"
COLLECTION_IDX == "idx:collection"
SOURCE_IDX == "idx:source"
ALL_DOCS_KEY == "all_docs"

Collections == {"A", "B", "default"}
Sources == {"s1", "s2", "unknown"}

\* hashlib.md5(source.encode()).hexdigest()[:12], on the sources of the model
md5_12(source) ==
    CASE source = "s1" -> "8ddf878039b7"
      [] source = "s2" -> "fac989447cad"
      [] source = "unknown" -> "ad921d604863"
      [] source = "data/uploads/A/f.txt" -> "500414ffadd0"
      [] source = "data/uploads/B/f.txt" -> "f41e2c793e1a"

uuid4(n) == "u" \o ToString(n)

\* a RedisVectorStore instance: __init__ sets self.redis, lines 53-64
RedisVectorStore == [redis |-> "redis_manager"]

_doc_key(doc_id) ==
    fstring(<<getattr(RedisVectorStore, "PREFIX"), ":", getattr(RedisVectorStore, "DOC_PREFIX"),
              ":", doc_id>>)
_collection_key(collection) ==
    fstring(<<getattr(RedisVectorStore, "PREFIX"), ":", getattr(RedisVectorStore, "COLLECTION_IDX"),
              ":", collection>>)
_source_key(source) ==
    fstring(<<getattr(RedisVectorStore, "PREFIX"), ":", getattr(RedisVectorStore, "SOURCE_IDX"),
              ":", md5_12(source)>>)
_all_docs_key ==
    fstring(<<getattr(RedisVectorStore, "PREFIX"), ":", getattr(RedisVectorStore, "ALL_DOCS_KEY")>>)

(***************************************************************************)
(* Inputs of the store: documents, embeddings, the collection argument.    *)
(* A Document is [page_content, metadata]; metadata is a function of its   *)
(* keys.  An embedding is a tuple of integers.                             *)
(***************************************************************************)
Document(page_content, metadata) == [page_content |-> page_content, metadata |-> metadata]

Docs == {
    Document("alpha", [source |-> "s1", collection |-> "A"]),
    Document("beta", [source |-> "s2", collection |-> "B"]),
    Document("gamma", [page |-> "1"]) }

\* the embedding handed in with a document of the model
embedding_of(doc) ==
    CASE doc.page_content = "alpha" -> <<1, 0>>
      [] doc.page_content = "beta" -> <<0, 1>>
      [] doc.page_content = "gamma" -> <<3, 4>>

QueryEmbs == {<<1, 0>>, <<0, 1>>}

\* the (documents, embeddings) pairs of add_documents calls: the embeddings
\* list may be shorter or longer than the documents list
Batches(docs) ==
    {<<ds, [i \in 1..m |-> IF i <= Len(ds) THEN embedding_of(ds[i]) ELSE <<1, 0>>]>> :
        ds \in SeqsUpTo(docs, MaxBatch), m \in 0..MaxBatch}

CollectionArgs == {None, "A", "B"}

\* the ids lists of delete calls: up to len of the first limit ids
IdLists(limit, len) == SeqsUpTo({uuid4(n) : n \in 1..limit}, len)

\* dict.get(key, default)
dict_get(d, key, default) == IF key \in DOMAIN d THEN d[key] ELSE default

Idle == [pc |-> "idle"]

\* what a completed call leaves in ret: the object called (RedisVectorStore is
\* "redis", InMemoryVectorStore "mem"), the caller, the call and its outcome
\* ret is cleared when the next call is entered; repeat tells that the call
\* came right after a completed call of the same operation with the same
\* argument on the same object
Returned(on, p, op, arg, value, repeat) ==
    [on |-> on, caller |-> p, op |-> op, arg |-> arg, value |-> value, error |-> None,
     repeat |-> repeat]
Raised(on, p, op, arg, error) ==
    [on |-> on, caller |-> p, op |-> op, arg |-> arg, value |-> None, error |-> error,
     repeat |-> FALSE]
NoCall == [on |-> None, caller |-> None, op |-> None, arg |-> None, value |-> None,
           error |-> None, repeat |-> FALSE]

\* what a call made on a cache object leaves in cache_ret
NoCacheCall ==
    [on |-> None, op |-> None, arg |-> None, hit |-> FALSE, value |-> None, error |-> None]
CacheReturned(on, op, arg, hit, value) ==
    [on |-> on, op |-> op, arg |-> arg, hit |-> hit, value |-> value, error |-> None]
CacheRaised(on, op, arg, error) ==
    [on |-> on, op |-> op, arg |-> arg, hit |-> FALSE, value |-> None, error |-> error]

Repeats(on, op, arg) == ret.on = on /\ ret.op = op /\ ret.arg = arg

\* the arguments of an add_documents call, with the two lengths
add_arg(documents, embeddings, collection) ==
    [documents |-> documents, embeddings |-> embeddings,
     n_documents |-> Len(documents), n_embeddings |-> Len(embeddings), collection |-> collection]

otherVars == <<limiter, allowed, splitter, split_ret, svc, svc_ret, cache_ret, cache_log>>

(***************************************************************************)
(* RedisVectorStore.add_documents                                          *)
(***************************************************************************)
\* datetime.now().isoformat() at the moments the model tells apart
Stamps == <<"2024-01-01T00:00:00", "2024-01-01T00:00:01">>

\* the stamps n readings of the clock give, one after the other
Nows(n) == {[i \in 1..n |-> Stamps[at[i]]] :
               at \in {f \in [1..n -> 1..Len(Stamps)] : \A i, j \in 1..n : i <= j => f[i] <= f[j]}}

\* the record json.dumps writes for one (doc, emb) pair, lines 125-141;
\* created_at is what datetime.now().isoformat() gave
doc_data(doc_id, doc, emb, collection, created_at) ==
    [id |-> doc_id,
     content |-> doc.page_content,
     embedding |-> emb,
     collection |-> IF collection \notin {None, ""} THEN collection
                    ELSE dict_get(doc.metadata, "collection", "default"),
     source |-> dict_get(doc.metadata, "source", "unknown"),
     metadata |-> doc.metadata,
     created_at |-> created_at]

\* lines 146-153 raise when one of the four keys cannot be built
commands_raise(data) ==
    AttributeError \in {_doc_key(data.id), _all_docs_key, _collection_key(data.collection),
                        _source_key(data.source)}

\* the four commands the loop body queues for one (doc, emb) pair
add_commands(data) ==
    IF commands_raise(data) THEN AttributeError
    ELSE << <<"SET", _doc_key(data.id), json_dumps(data)>>,
            <<"SADD", _all_docs_key, data.id>>,
            <<"SADD", _collection_key(data.collection), data.id>>,
            <<"SADD", _source_key(data.source), data.id>> >>

\* the turn of the loop over zip(documents, embeddings) that raises, counted
\* from 1; 0 when every turn queues its commands
RECURSIVE raising_turn(_, _, _, _, _)
raising_turn(first, documents, embeddings, collection, stamps) ==
    IF documents = <<>> \/ embeddings = <<>> THEN 0
    ELSE IF commands_raise(doc_data(uuid4(first), Head(documents), Head(embeddings), collection,
                                    Head(stamps)))
    THEN 1
    ELSE LET later == raising_turn(first + 1, Tail(documents), Tail(embeddings), collection,
                                   Tail(stamps))
         IN IF later = 0 THEN 0 ELSE later + 1

\* the pipeline built by the loop over zip(documents, embeddings)
RECURSIVE add_pipe(_, _, _, _, _)
add_pipe(first, documents, embeddings, collection, stamps) ==
    IF raising_turn(first, documents, embeddings, collection, stamps) # 0 THEN AttributeError
    ELSE IF documents = <<>> \/ embeddings = <<>> THEN <<>>
    ELSE add_commands(doc_data(uuid4(first), Head(documents), Head(embeddings), collection,
                               Head(stamps)))
         \o add_pipe(first + 1, Tail(documents), Tail(embeddings), collection, Tail(stamps))

\* the loop and pipe.execute(), lines 122-158: a turn that raises leaves the
\* pipeline unsent, with the ids uuid4 handed out so far spent
add_documents_body(p, documents, embeddings, collection) ==
    LET n == Min(Len(documents), Len(embeddings))
    IN \E stamps \in Nows(n) :
        LET turn == raising_turn(next_uuid + 1, documents, embeddings, collection, stamps)
        IN IF turn # 0
           THEN /\ next_uuid' = next_uuid + turn
                /\ ret' = Raised("redis", p, "add_documents",
                                 add_arg(documents, embeddings, collection), AttributeError)
                /\ UNCHANGED <<redis, proc, mem>>
           ELSE /\ redis' = pipe_execute(redis, add_pipe(next_uuid + 1, documents, embeddings,
                                                         collection, stamps))
                /\ next_uuid' = next_uuid + n
                /\ ret' = Returned("redis", p, "add_documents",
                                   add_arg(documents, embeddings, collection),
                                   [i \in 1..n |-> uuid4(next_uuid + i)], FALSE)
                /\ UNCHANGED <<proc, mem>>

\* add_documents without its length check: zip stops at the shorter list
add_documents_unchecked(p, documents, embeddings, collection) ==
    /\ proc[p] = Idle
    /\ add_documents_body(p, documents, embeddings, collection)

add_documents(p, documents, embeddings, collection) ==
    /\ proc[p] = Idle
    /\ IF Len(documents) # Len(embeddings)
       THEN /\ ret' = Raised("redis", p, "add_documents",
                             add_arg(documents, embeddings, collection), "ValueError")
            /\ UNCHANGED <<redis, next_uuid, proc, mem>>
       ELSE add_documents_body(p, documents, embeddings, collection)

(***************************************************************************)
(* RedisVectorStore._get_document                                          *)
(***************************************************************************)
\* None when the key is missing; self._doc_key is evaluated before the GET
has_document(db, doc_id) == r_exists(db, _doc_key(doc_id))
_get_document(db, doc_id) ==
    IF _doc_key(doc_id) = AttributeError THEN AttributeError
    ELSE json_loads(db.data[_doc_key(doc_id)])

(***************************************************************************)
(* RedisVectorStore.delete, delete_by_source, delete_collection, clear_all *)
(* delete reads each record with its own GET, queues the removals and      *)
(* executes the pipeline; the three others read an index with SMEMBERS and *)
(* call delete on list(doc_ids).                                           *)
(***************************************************************************)
\* the removals delete queues for a record it found, lines 281-288
delete_commands(data, doc_id) ==
    IF commands_raise(data) THEN AttributeError
    ELSE << <<"SREM", _all_docs_key, doc_id>>,
            <<"SREM", _collection_key(data.collection), doc_id>>,
            <<"SREM", _source_key(data.source), doc_id>>,
            <<"DEL", _doc_key(doc_id)>> >>

InDelete(op, arg, ids, count) ==
    [pc |-> "delete", op |-> op, arg |-> arg, ids |-> ids, pipe |-> <<>>, count |-> count,
     repeat |-> Repeats("redis", op, arg)]

\* delete(ids) is entered: pipe = self.redis.client.pipeline()
delete(p, ids) ==
    /\ proc[p] = Idle
    /\ proc' = [proc EXCEPT ![p] = InDelete("delete", ids, ids, 0)]
    /\ ret' = NoCall
    /\ UNCHANGED <<redis, next_uuid, mem>>

\* the turn of the loop of delete for doc_id raises: _get_document cannot
\* build its key, or the removals of the record found cannot build theirs
delete_turn_raises(db, doc_id) ==
    \/ _doc_key(doc_id) = AttributeError
    \/ has_document(db, doc_id) /\ commands_raise(_get_document(db, doc_id))

\* one turn of the loop of delete: _get_document(doc_id), then queue
delete_get(p) ==
    /\ proc[p].pc = "delete"
    /\ proc[p].ids # <<>>
    /\ LET doc_id == Head(proc[p].ids)
       IN IF delete_turn_raises(redis, doc_id)
          THEN /\ proc' = [proc EXCEPT ![p] = Idle]
               /\ ret' = Raised("redis", p, proc[p].op, proc[p].arg, AttributeError)
          ELSE /\ proc' = [proc EXCEPT ![p].ids = Tail(@),
                                       ![p].pipe = IF has_document(redis, doc_id)
                                                   THEN @ \o delete_commands(_get_document(redis, doc_id), doc_id)
                                                   ELSE @]
               /\ UNCHANGED ret
    /\ UNCHANGED <<redis, next_uuid, mem>>

\* pipe.execute() and the return of delete, or of the caller of delete
delete_execute(p) ==
    /\ proc[p].pc = "delete"
    /\ proc[p].ids = <<>>
    /\ redis' = pipe_execute(redis, proc[p].pipe)
    /\ proc' = [proc EXCEPT ![p] = Idle]
    /\ ret' = Returned("redis", p, proc[p].op, proc[p].arg,
                       IF proc[p].op = "delete" THEN None ELSE proc[p].count, proc[p].repeat)
    /\ UNCHANGED <<next_uuid, mem>>

(***************************************************************************)
(* A pipeline that fails part way: the connection is lost during           *)
(* pipe.execute(), some of the queued commands were applied, the others    *)
(* were not.                                                               *)
(***************************************************************************)
\* the commands of pipe at the positions in applied, in order
RECURSIVE pick_commands(_, _, _)
pick_commands(pipe, applied, i) ==
    IF i > Len(pipe) THEN <<>>
    ELSE (IF i \in applied THEN <<pipe[i]>> ELSE <<>>) \o pick_commands(pipe, applied, i + 1)

\* doc_ids = smembers(key); if doc_ids: self.delete(list(doc_ids)); return len(doc_ids)
delete_members(p, op, arg, key) ==
    /\ proc[p] = Idle
    /\ LET doc_ids == r_smembers(redis, key)
       IN IF key = AttributeError
          THEN /\ ret' = Raised("redis", p, op, arg, AttributeError)
               /\ UNCHANGED proc
          ELSE IF doc_ids # {}
          THEN /\ \E order \in Perms(doc_ids) :
                      proc' = [proc EXCEPT ![p] = InDelete(op, arg, order, Cardinality(doc_ids))]
               /\ ret' = NoCall
          ELSE /\ ret' = Returned("redis", p, op, arg, 0, Repeats("redis", op, arg))
               /\ UNCHANGED proc
    /\ UNCHANGED <<redis, next_uuid, mem>>

delete_by_source(p, source) ==
    delete_members(p, "delete_by_source", source, _source_key(source))

delete_collection(p, collection) ==
    delete_members(p, "delete_collection", collection, _collection_key(collection))

clear_all(p) ==
    delete_members(p, "clear_all", None, _all_docs_key)

(***************************************************************************)
(* cosine_similarity (src/src/utils/similarity.py).  Scores are kept in    *)
(* millionths; the model's vectors have whole-number norms.                *)
(***************************************************************************)
SCORE_UNIT == 1000000

\* np.dot of two vectors of one length
RECURSIVE dot(_, _)
dot(vec_a, vec_b) ==
    IF vec_a = <<>> \/ vec_b = <<>> THEN 0
    ELSE Head(vec_a) * Head(vec_b) + dot(Tail(vec_a), Tail(vec_b))

\* np.linalg.norm
norm(vec) == CHOOSE n \in 0..dot(vec, vec) : n * n = dot(vec, vec)

\* np.clip(x, lo, hi)
clip(x, lo, hi) == Max(lo, Min(x, hi))

\* the dot product divided by the norm of the first vector alone
cosine_by_one_norm(vec_a, vec_b) ==
    IF norm(vec_a) = 0 \/ norm(vec_b) = 0 THEN 0
    ELSE clip((dot(vec_a, vec_b) * SCORE_UNIT) \div norm(vec_a), -SCORE_UNIT, SCORE_UNIT)

cosine_similarity(vec_a, vec_b) ==
    IF norm(vec_a) = 0 \/ norm(vec_b) = 0 THEN 0
    ELSE clip((dot(vec_a, vec_b) * SCORE_UNIT) \div (norm(vec_a) * norm(vec_b)),
              -SCORE_UNIT, SCORE_UNIT)

\* a call of cosine_similarity on its own: it reads its arguments and
\* returns, writing nothing
cosine_call(vec_a, vec_b) ==
    /\ \A p \in Procs : proc[p] = Idle
    /\ ret' = Returned("similarity", None, "cosine_similarity",
                       [vec_a |-> vec_a, vec_b |-> vec_b], cosine_similarity(vec_a, vec_b), FALSE)
    /\ UNCHANGED <<redis, next_uuid, proc, mem>>

\* list.sort(key=score, reverse=True): stable, equal scores keep their order
sort_insert(sorted, x) ==
    LET keep == {i \in 0..Len(sorted) : \A j \in 1..i : sorted[j].score >= x.score}
        at == CHOOSE i \in keep : \A j \in keep : j <= i
    IN SubSeq(sorted, 1, at) \o <<x>> \o SubSeq(sorted, at + 1, Len(sorted))

RECURSIVE sort_by_score(_)
sort_by_score(scores) ==
    IF scores = <<>> THEN <<>>
    ELSE sort_insert(sort_by_score(SubSeq(scores, 1, Len(scores) - 1)), scores[Len(scores)])

\* seq[:k]
take(seq, k) == SubSeq(seq, 1, Min(k, Len(seq)))

(***************************************************************************)
(* RedisVectorStore.similarity_search, with _get_all_documents.            *)
(* A filter is a function of its keys; None and {} are the empty function. *)
(* smembers returns a Python set, iterated in an order of its own: rank    *)
(* lists the ids in that order.                                            *)
(***************************************************************************)
NoFilter == [key \in {} |-> None]
Filters == {NoFilter, [collection |-> "A"], [collection |-> "B"]}
TopKs == {1, 2}

\* the members of doc_ids in the order rank gives them
RECURSIVE iterate(_, _)
iterate(doc_ids, rank) ==
    IF rank = <<>> THEN <<>>
    ELSE (IF Head(rank) \in doc_ids THEN <<Head(rank)>> ELSE <<>>) \o iterate(doc_ids, Tail(rank))

\* the loop of _get_all_documents: the records found, missing ones skipped
RECURSIVE get_documents(_, _)
get_documents(db, doc_ids) ==
    IF doc_ids = <<>> THEN <<>>
    ELSE (IF has_document(db, Head(doc_ids)) THEN <<_get_document(db, Head(doc_ids))>> ELSE <<>>)
         \o get_documents(db, Tail(doc_ids))

\* the index _get_all_documents reads, lines 184-187
index_key(collection) ==
    IF collection \notin {None, ""} THEN _collection_key(collection) ELSE _all_docs_key

\* _get_all_documents raises: the key of the index cannot be built, or the
\* key of the first record it goes on to read
get_all_raises(db, collection) ==
    \/ index_key(collection) = AttributeError
    \/ \E doc_id \in r_smembers(db, index_key(collection)) : _doc_key(doc_id) = AttributeError

_get_all_documents(db, collection, rank) ==
    IF get_all_raises(db, collection) THEN AttributeError
    ELSE get_documents(db, iterate(r_smembers(db, index_key(collection)), rank))

(***************************************************************************)
(* RedisVectorStore.list_sources: one entry per source in the order the    *)
(* sources are first met, with the number of records found and the         *)
(* created_at of the first record met.                                     *)
(***************************************************************************)
\* sources[source]["count"] += 1, a new entry going to the end
count_source(sources, doc) ==
    LET source == dict_get(doc, "source", "unknown")
    IN IF \E i \in 1..Len(sources) : sources[i].source = source
       THEN [i \in 1..Len(sources) |->
                IF sources[i].source = source
                THEN [sources[i] EXCEPT !.count = @ + 1] ELSE sources[i]]
       ELSE Append(sources, [source |-> source, count |-> 1,
                             created_at |-> dict_get(doc, "created_at", None)])

RECURSIVE count_sources(_, _)
count_sources(documents, sources) ==
    IF documents = <<>> THEN sources
    ELSE count_sources(Tail(documents), count_source(sources, Head(documents)))

list_sources(p, collection) ==
    /\ proc[p] = Idle
    /\ \E rank \in Perms({uuid4(n) : n \in 1..next_uuid}) :
           ret' = IF get_all_raises(redis, collection)
                  THEN Raised("redis", p, "list_sources", collection, AttributeError)
                  ELSE Returned("redis", p, "list_sources", collection,
                                count_sources(_get_all_documents(redis, collection, rank), <<>>),
                                FALSE)
    /\ UNCHANGED <<redis, next_uuid, proc, mem>>

(***************************************************************************)
(* RedisVectorStore.list_collections and get_document_count.  KEYS gives   *)
(* the index keys in an order of the server's choosing.                    *)
(***************************************************************************)
\* the pattern of line 317 without its "*": what line 321 measures
collection_prefix ==
    fstring(<<getattr(RedisVectorStore, "PREFIX"), ":", getattr(RedisVectorStore, "COLLECTION_IDX"),
              ":">>)

\* the loop of lines 322-328: key[prefix_len:] for the keys whose set is not
\* empty, in the order of keys
RECURSIVE names_after(_, _, _)
names_after(db, keys, prefix_len) ==
    IF keys = <<>> THEN <<>>
    ELSE (IF r_scard(db, Head(keys)) > 0
          THEN <<SubSeq(Head(keys), prefix_len + 1, Len(Head(keys)))>>
          ELSE <<>>) \o names_after(db, Tail(keys), prefix_len)

\* what list_collections makes of the keys that KEYS gave it
collection_names(db, keys) ==
    IF collection_prefix = AttributeError THEN AttributeError
    ELSE names_after(db, keys, Len(collection_prefix))

\* the pattern of line 317 is the first thing list_collections builds
list_collections(p) ==
    /\ proc[p] = Idle
    /\ IF collection_prefix = AttributeError
       THEN ret' = Raised("redis", p, "list_collections", None, AttributeError)
       ELSE \E keys \in Perms(r_keys(redis, collection_prefix \o "*")) :
                ret' = Returned("redis", p, "list_collections", None,
                                collection_names(redis, keys), FALSE)
    /\ UNCHANGED <<redis, next_uuid, proc, mem>>

\* if collection: scard of its index, else scard of the index of all records
document_count(db, collection) ==
    IF index_key(collection) = AttributeError THEN AttributeError
    ELSE r_scard(db, index_key(collection))

get_document_count(p, collection) ==
    /\ proc[p] = Idle
    /\ ret' = IF index_key(collection) = AttributeError
              THEN Raised("redis", p, "get_document_count", collection, AttributeError)
              ELSE Returned("redis", p, "get_document_count", collection,
                            document_count(redis, collection), FALSE)
    /\ UNCHANGED <<redis, next_uuid, proc, mem>>

\* the filter loop of similarity_search, lines 228-242
filter_match(data, filter) ==
    \A key \in DOMAIN filter :
        IF key = "collection"
        THEN data.collection = filter[key]
        ELSE dict_get(data.metadata, key, None) = filter[key]

\* filtered_docs: the records that match, in their order
RECURSIVE filter_documents(_, _)
filter_documents(documents, filter) ==
    IF documents = <<>> THEN <<>>
    ELSE (IF filter_match(Head(documents), filter) THEN <<Head(documents)>> ELSE <<>>)
         \o filter_documents(Tail(documents), filter)

\* lines 244-269: score, sort, top k.  The result pairs each Document with
\* its score; record is the stored record behind it.
score_top_k(documents, query_embedding, k) ==
    LET scores == [i \in 1..Len(documents) |->
                      [record |-> documents[i],
                       score |-> cosine_similarity(query_embedding, documents[i].embedding)]]
        top == take(sort_by_score(scores), k)
    IN [i \in 1..Len(top) |->
           [doc |-> Document(top[i].record.content, top[i].record.metadata),
            score |-> top[i].score,
            record |-> top[i].record]]

\* what similarity_search returns, lines 215-269
search(db, query_embedding, k, filter, rank) ==
    IF get_all_raises(db, dict_get(filter, "collection", None)) THEN AttributeError
    ELSE LET documents == _get_all_documents(db, dict_get(filter, "collection", None), rank)
         IN IF documents = <<>> THEN <<>>
            ELSE score_top_k(IF DOMAIN filter # {} THEN filter_documents(documents, filter)
                             ELSE documents,
                             query_embedding, k)

\* np.dot raises ValueError for vectors of different lengths: the search
\* raises when a record it scores has another dimension than the query
search_raises(db, query_embedding, filter, rank) ==
    /\ ~get_all_raises(db, dict_get(filter, "collection", None))
    /\ LET documents == _get_all_documents(db, dict_get(filter, "collection", None), rank)
           scored == IF DOMAIN filter # {} THEN filter_documents(documents, filter) ELSE documents
       IN \E i \in 1..Len(scored) : Len(scored[i].embedding) # Len(query_embedding)

search_arg(query_embedding, k, filter) ==
    [query_embedding |-> query_embedding, k |-> k, filter |-> filter]

similarity_search(p, query_embedding, k, filter) ==
    /\ proc[p] = Idle
    /\ \E rank \in Perms({uuid4(n) : n \in 1..next_uuid}) :
           ret' = IF get_all_raises(redis, dict_get(filter, "collection", None))
                  THEN Raised("redis", p, "similarity_search",
                              search_arg(query_embedding, k, filter), AttributeError)
                  ELSE IF search_raises(redis, query_embedding, filter, rank)
                  THEN Raised("redis", p, "similarity_search",
                              search_arg(query_embedding, k, filter), "ValueError")
                  ELSE Returned("redis", p, "similarity_search",
                                search_arg(query_embedding, k, filter),
                                search(redis, query_embedding, k, filter, rank), FALSE)
    /\ UNCHANGED <<redis, next_uuid, proc, mem>>

(***************************************************************************)
(* InMemoryVectorStore: three parallel lists.                              *)
(***************************************************************************)
EmptyMem == [documents |-> <<>>, embeddings |-> <<>>, ids |-> <<>>]

mem_arg(documents, embeddings) ==
    [documents |-> documents, embeddings |-> embeddings,
     n_documents |-> Len(documents), n_embeddings |-> Len(embeddings)]

\* the loop over zip(documents, embeddings), lines 61-69
mem_add_documents_body(documents, embeddings) ==
    LET n == Min(Len(documents), Len(embeddings))
        new_ids == [i \in 1..n |-> uuid4(next_uuid + i)]
    IN /\ mem' = [documents |-> mem.documents \o SubSeq(documents, 1, n),
                  embeddings |-> mem.embeddings \o SubSeq(embeddings, 1, n),
                  ids |-> mem.ids \o new_ids]
       /\ next_uuid' = next_uuid + n
       /\ ret' = Returned("mem", None, "add_documents", mem_arg(documents, embeddings), new_ids, FALSE)
       /\ UNCHANGED <<redis, proc>>

mem_add_documents(documents, embeddings) ==
    IF Len(documents) # Len(embeddings)
    THEN /\ ret' = Raised("mem", None, "add_documents", mem_arg(documents, embeddings), "ValueError")
         /\ UNCHANGED <<mem, next_uuid, redis, proc>>
    ELSE mem_add_documents_body(documents, embeddings)

\* all(key in doc_metadata and doc_metadata[key] == value ...)
mem_filter_match(doc_metadata, filter) ==
    \A key \in DOMAIN filter : key \in DOMAIN doc_metadata /\ doc_metadata[key] = filter[key]

\* the (i, score) pairs of the stored embeddings that pass the filter, in order
RECURSIVE mem_scores(_, _, _)
mem_scores(i, query_embedding, filter) ==
    IF i > Len(mem.embeddings) THEN <<>>
    ELSE (IF DOMAIN filter # {} /\ ~mem_filter_match(mem.documents[i].metadata, filter)
          THEN <<>>
          ELSE <<[i |-> i, score |-> cosine_similarity(query_embedding, mem.embeddings[i])]>>)
         \o mem_scores(i + 1, query_embedding, filter)

mem_search_results(query_embedding, k, filter) ==
    IF mem.documents = <<>> THEN <<>>
    ELSE LET top == take(sort_by_score(mem_scores(1, query_embedding, filter)), k)
         IN [j \in 1..Len(top) |->
                [doc |-> mem.documents[top[j].i], score |-> top[j].score, id |-> mem.ids[top[j].i]]]

\* np.dot raising on a stored embedding of another dimension than the query
mem_search_raises(query_embedding, filter) ==
    \E i \in 1..Len(mem.embeddings) :
        /\ DOMAIN filter = {} \/ mem_filter_match(mem.documents[i].metadata, filter)
        /\ Len(mem.embeddings[i]) # Len(query_embedding)

mem_similarity_search(query_embedding, k, filter) ==
    /\ ret' = IF mem_search_raises(query_embedding, filter)
              THEN Raised("mem", None, "similarity_search",
                          search_arg(query_embedding, k, filter), "ValueError")
              ELSE Returned("mem", None, "similarity_search",
                            search_arg(query_embedding, k, filter),
                            mem_search_results(query_embedding, k, filter), FALSE)
    /\ UNCHANGED <<mem, next_uuid, redis, proc>>

\* the positions delete keeps, in order
RECURSIVE mem_kept(_, _)
mem_kept(i, ids_to_delete) ==
    IF i > Len(mem.ids) THEN <<>>
    ELSE (IF mem.ids[i] \notin ids_to_delete THEN <<i>> ELSE <<>>) \o mem_kept(i + 1, ids_to_delete)

mem_delete(ids) ==
    LET kept == mem_kept(1, Range(ids))
    IN /\ mem' = [documents |-> [j \in 1..Len(kept) |-> mem.documents[kept[j]]],
                  embeddings |-> [j \in 1..Len(kept) |-> mem.embeddings[kept[j]]],
                  ids |-> [j \in 1..Len(kept) |-> mem.ids[kept[j]]]]
       /\ ret' = Returned("mem", None, "delete", ids, None, Repeats("mem", "delete", ids))
       /\ UNCHANGED <<next_uuid, redis, proc>>

mem_clear ==
    /\ mem' = EmptyMem
    /\ ret' = Returned("mem", None, "clear", None, None, Repeats("mem", "clear", None))
    /\ UNCHANGED <<next_uuid, redis, proc>>

(***************************************************************************)
(* RedisRateLimiter (src/src/cache/query_cache.py): one counter key per    *)
(* identifier.  is_allowed builds the key, reads the counter with GET and, *)
(* unless it denies, writes: SETEX for a missing counter, INCR for an      *)
(* existing one.  allowed counts, per identifier, the calls that returned  *)
(* True since the counter was last absent.                                 *)
(***************************************************************************)
RL_PREFIX == "ratelimit"

\* the key of an identifier's counter as the server holds it, under the
\* name line 9 gives it
CounterKey(identifier) == RL_PREFIX \o ":" \o identifier
Identifiers == {"x", "y"}

DefaultLimiter == [max_requests |-> 100, window_seconds |-> 60]
Limiters == [max_requests : 1..MaxRequests, window_seconds : 1..MaxWindow]

\* RedisRateLimiter._make_key: limiter holds what __init__ binds on the
\* instance, and PREFIX is a name of the module (line 9)
rl_make_key(identifier) == fstring(<<getattr(limiter, "PREFIX"), ":", identifier>>)

\* RedisManager.set(key, value, ttl): SETEX when ttl is truthy, SET otherwise
\* (ttl None is handed in as 0, which is as falsy)
rm_set(db, key, value, ttl) ==
    IF ttl # 0 THEN r_setex(db, key, ttl, value) ELSE r_set(db, key, value)

\* count >= self.max_requests
over_limit(count, max_requests) == count >= max_requests

limOther == <<next_uuid, mem, limiter, splitter, split_ret, svc, svc_ret, cache_ret, cache_log>>

\* RedisRateLimiter.is_allowed(identifier), lines 195-214: [error, value, db],
\* db the server after the call
is_allowed_call(db, identifier) ==
    LET key == rl_make_key(identifier)
        current == r_get(db, key)
    IN IF key = AttributeError
       THEN [error |-> AttributeError, db |-> db]
       ELSE IF current = None
       THEN [error |-> None, value |-> TRUE, db |-> rm_set(db, key, "1", limiter.window_seconds)]
       ELSE IF over_limit(int(current), limiter.max_requests)
       THEN [error |-> None, value |-> FALSE, db |-> db]
       ELSE [error |-> None, value |-> TRUE, db |-> r_incr(db, key)]

\* RedisRateLimiter.get_remaining(identifier), lines 223-230
get_remaining_call(db, identifier) ==
    LET current == r_get(db, rl_make_key(identifier))
    IN IF rl_make_key(identifier) = AttributeError THEN AttributeError
       ELSE IF current = None THEN limiter.max_requests
       ELSE Max(0, limiter.max_requests - int(current))

\* caller p calls is_allowed(identifier)
is_allowed(p, identifier) ==
    LET answer == is_allowed_call(redis, identifier)
    IN /\ proc[p] = Idle
       /\ IF answer.error # None
          THEN /\ ret' = Raised("limiter", p, "is_allowed", identifier, answer.error)
               /\ UNCHANGED <<redis, allowed>>
          ELSE /\ redis' = answer.db
               /\ allowed' = IF answer.value THEN [allowed EXCEPT ![identifier] = @ + 1]
                             ELSE allowed
               /\ ret' = Returned("limiter", p, "is_allowed", identifier, answer.value, FALSE)
       /\ UNCHANGED proc
       /\ UNCHANGED limOther

\* caller p calls get_remaining(identifier)
get_remaining(p, identifier) ==
    LET answer == get_remaining_call(redis, identifier)
    IN /\ proc[p] = Idle
       /\ ret' = IF answer = AttributeError
                 THEN Raised("limiter", p, "get_remaining", identifier, AttributeError)
                 ELSE Returned("limiter", p, "get_remaining", identifier, answer, FALSE)
       /\ UNCHANGED <<redis, proc, allowed>>
       /\ UNCHANGED limOther

\* reset: RedisManager.delete, bool(number of keys removed)
reset(p, identifier) ==
    /\ proc[p] = Idle
    /\ IF rl_make_key(identifier) = AttributeError
       THEN /\ ret' = Raised("limiter", p, "reset", identifier, AttributeError)
            /\ UNCHANGED <<redis, allowed>>
       ELSE /\ redis' = r_del(redis, rl_make_key(identifier))
            /\ allowed' = [allowed EXCEPT ![identifier] = 0]
            /\ ret' = Returned("limiter", p, "reset", identifier,
                               r_exists(redis, rl_make_key(identifier)), FALSE)
    /\ UNCHANGED proc
    /\ UNCHANGED limOther

(***************************************************************************)
(* Strings as Python handles them.                                         *)
(***************************************************************************)
Alphabet == {"a", "b", " ", ".", "\n"}
Whitespace == {" ", "\n"}

\* every text over the alphabet of length 0..n
RECURSIVE Texts(_)
Texts(n) ==
    IF n = 0 THEN {""}
    ELSE LET shorter == Texts(n - 1) IN shorter \cup {t \o c : t \in shorter, c \in Alphabet}

char(text, i) == SubSeq(text, i, i)

\* str.find from position i on, 1-based; 0 when sep does not occur
RECURSIVE find_from(_, _, _)
find_from(text, sep, i) ==
    IF i + Len(sep) - 1 > Len(text) THEN 0
    ELSE IF SubSeq(text, i, i + Len(sep) - 1) = sep THEN i
    ELSE find_from(text, sep, i + 1)

find(text, sep) == find_from(text, sep, 1)

\* sep in text
contains(text, sep) == find(text, sep) # 0

\* text.split(sep), sep non-empty
RECURSIVE str_split(_, _)
str_split(text, sep) ==
    LET at == find(text, sep)
    IN IF at = 0 THEN <<text>>
       ELSE <<SubSeq(text, 1, at - 1)>> \o str_split(SubSeq(text, at + Len(sep), Len(text)), sep)

\* the text taken as one piece instead of its characters
one_piece(text) == IF text = "" THEN <<>> ELSE <<text>>

\* list(text)
list(text) == [i \in 1..Len(text) |-> char(text, i)]

\* separator.join(parts)
RECURSIVE join(_, _)
join(separator, parts) ==
    IF parts = <<>> THEN ""
    ELSE IF Len(parts) = 1 THEN parts[1]
    ELSE parts[1] \o separator \o join(separator, Tail(parts))

\* str.strip()
RECURSIVE strip(_)
strip(text) ==
    IF text = "" THEN ""
    ELSE IF char(text, 1) \in Whitespace THEN strip(SubSeq(text, 2, Len(text)))
    ELSE IF char(text, Len(text)) \in Whitespace THEN strip(SubSeq(text, 1, Len(text) - 1))
    ELSE text

\* sum(len(s) for s in parts)
RECURSIVE total_length(_)
total_length(parts) == IF parts = <<>> THEN 0 ELSE Len(Head(parts)) + total_length(Tail(parts))

(***************************************************************************)
(* BaseTextSplitter._merge_splits (src/src/text_splitters/                 *)
(* base_text_splitter.py).  self is [chunk_size, chunk_overlap,            *)
(* separators, keep_separator].                                            *)
(***************************************************************************)
\* a new chunk started with nothing of the one before
no_overlap_tail(self, current_chunk) == <<>>

\* lines 109-118: the pieces of current_chunk kept as overlap
overlap_tail(self, current_chunk) ==
    LET n == Len(current_chunk)
        reach == {j \in 1..n : total_length(SubSeq(current_chunk, j, n)) >= self.chunk_overlap}
        overlap_start == IF reach = {} THEN n + 1 ELSE CHOOSE j \in reach : \A i \in reach : i <= j
    IN SubSeq(current_chunk, overlap_start, n)

\* the loop of lines 94-122 without the append of lines 127-128
RECURSIVE merge_loop(_, _, _, _, _)
merge_loop(self, splits, separator, chunks, current_chunk) ==
    IF splits = <<>> THEN [chunks |-> chunks, current_chunk |-> current_chunk]
    ELSE LET split == Head(splits)
             full == /\ total_length(current_chunk) + Len(split) > self.chunk_size
                     /\ current_chunk # <<>>
         IN merge_loop(self, Tail(splits), separator,
                       IF full THEN Append(chunks, join(separator, current_chunk)) ELSE chunks,
                       Append(IF full THEN overlap_tail(self, current_chunk) ELSE current_chunk,
                              split))

\* _merge_splits that forgets the last chunk
merge_splits_no_last(self, splits, separator) ==
    merge_loop(self, splits, separator, <<>>, <<>>).chunks

_merge_splits(self, splits, separator) ==
    LET end == merge_loop(self, splits, separator, <<>>, <<>>)
    IN IF end.current_chunk # <<>>
       THEN Append(end.chunks, join(separator, end.current_chunk))
       ELSE end.chunks

(***************************************************************************)
(* RecursiveCharacterTextSplitter (src/src/text_splitters/                 *)
(* recursive_character_text_splitter.py).                                  *)
(***************************************************************************)
DEFAULT_SEPARATORS == <<"\n\n", "\n", ". ", " ", "">>

\* lines 78-88: the first separator found in the text, and the finer ones
pick_separator(text, separators) ==
    LET hits == {i \in 1..Len(separators) : separators[i] = "" \/ contains(text, separators[i])}
        first == CHOOSE i \in hits : \A j \in hits : i <= j
    IN IF hits = {} THEN [separator |-> separators[Len(separators)], new_separators |-> <<>>]
       ELSE IF separators[first] = "" THEN [separator |-> "", new_separators |-> <<>>]
       ELSE [separator |-> separators[first],
             new_separators |-> SubSeq(separators, first + 1, Len(separators))]

\* line 145: [chunk.strip() for chunk in final_chunks if chunk.strip()]
RECURSIVE clean_up(_)
clean_up(final_chunks) ==
    IF final_chunks = <<>> THEN <<>>
    ELSE (IF strip(Head(final_chunks)) # "" THEN <<strip(Head(final_chunks))>> ELSE <<>>)
         \o clean_up(Tail(final_chunks))

\* the merged good_splits that are moved to final_chunks, if there are any
flush(self, good_splits) ==
    IF good_splits # <<>> THEN _merge_splits(self, good_splits, "") ELSE <<>>

RECURSIVE _split_text(_, _, _), split_loop(_, _, _, _, _, _)

\* the loop of lines 103-140 over the remaining splits
split_loop(self, splits, separator, new_separators, good_splits, final_chunks) ==
    IF splits = <<>> THEN final_chunks \o flush(self, good_splits)
    ELSE LET split == Head(splits)
             split_with_sep == IF self.keep_separator /\ separator # ""
                               THEN split \o separator ELSE split
         IN IF Len(split_with_sep) < self.chunk_size
            THEN split_loop(self, Tail(splits), separator, new_separators,
                            Append(good_splits, split_with_sep), final_chunks)
            ELSE IF new_separators # <<>>
            THEN split_loop(self, Tail(splits), separator, new_separators, <<>>,
                            final_chunks \o flush(self, good_splits)
                                \o _split_text(self, split, new_separators))
            ELSE split_loop(self, Tail(splits), separator, new_separators, <<>>,
                            final_chunks \o flush(self, good_splits) \o <<split_with_sep>>)

_split_text(self, text, separators) ==
    LET found == pick_separator(text, separators)
        splits == IF found.separator # "" THEN str_split(text, found.separator) ELSE list(text)
    IN clean_up(split_loop(self, splits, found.separator, found.new_separators, <<>>, <<>>))

\* no splitter object yet
NoSplitter == [built |-> FALSE, error |-> None]

splitOther == <<redis, next_uuid, proc, ret, mem, limiter, allowed, svc, svc_ret,
               cache_ret, cache_log>>

\* the separators argument left out (None); an empty list is as falsy
NoSeparators == <<>>

\* the separators a caller passes: none, or the list of line 6 itself
SeparatorArgs == {NoSeparators, DEFAULT_SEPARATORS}

\* what __init__ makes of its arguments once the base constructor has bound
\* chunk_size and chunk_overlap: separators or self.DEFAULT_SEPARATORS, line 47.
\* DEFAULT_SEPARATORS is a name of the module (line 6), so the read through
\* self raises and no object is made.
splitter_object(separators, chunk_size, chunk_overlap) ==
    LET self == [chunk_size |-> chunk_size, chunk_overlap |-> chunk_overlap]
    IN IF separators # NoSeparators
       THEN [built |-> TRUE, error |-> None,
             chunk_size |-> chunk_size, chunk_overlap |-> chunk_overlap,
             separators |-> separators, keep_separator |-> TRUE]
       ELSE IF "DEFAULT_SEPARATORS" \in DOMAIN self
       THEN [built |-> TRUE, error |-> None,
             chunk_size |-> chunk_size, chunk_overlap |-> chunk_overlap,
             separators |-> getattr(self, "DEFAULT_SEPARATORS"), keep_separator |-> TRUE]
       ELSE [built |-> FALSE, error |-> AttributeError,
             chunk_size |-> chunk_size, chunk_overlap |-> chunk_overlap]

\* RecursiveCharacterTextSplitter(separators, chunk_size, chunk_overlap): the
\* base constructor refuses an overlap that is not below the chunk size.  After
\* a refusal there is no object; the record keeps the arguments of the call.
splitter_init(separators, chunk_size, chunk_overlap) ==
    /\ splitter = NoSplitter
    /\ splitter' = IF chunk_overlap >= chunk_size
                   THEN [built |-> FALSE, error |-> "ValueError",
                         chunk_size |-> chunk_size, chunk_overlap |-> chunk_overlap]
                   ELSE splitter_object(separators, chunk_size, chunk_overlap)
    /\ UNCHANGED split_ret
    /\ UNCHANGED splitOther

\* split_text is a function of the object and the text: a behaviour keeps the
\* result of one call
split_text(text) ==
    /\ splitter.built
    /\ ~split_ret.called
    /\ split_ret' = [called |-> TRUE, text |-> text,
                     chunks |-> _split_text(splitter, text, splitter.separators)]
    /\ UNCHANGED splitter
    /\ UNCHANGED splitOther

\* a call of _merge_splits(splits, "") on its own
merge_splits(splits) ==
    /\ splitter.built
    /\ ~split_ret.called
    /\ split_ret' = [called |-> TRUE, op |-> "_merge_splits", splits |-> splits,
                     merged |-> _merge_splits(splitter, splits, "")]
    /\ UNCHANGED splitter
    /\ UNCHANGED splitOther

\* the Documents split_documents appends for one input document: the
\* metadata is a new dict {**doc.metadata, "chunk_index": i, "chunk_count": n}
chunk_documents(doc, chunks) ==
    [i \in 1..Len(chunks) |->
        Document(chunks[i],
                 [chunk_index |-> i - 1, chunk_count |-> Len(chunks)] @@ doc.metadata)]

\* the loop over documents, lines 64-75
RECURSIVE split_documents_result(_)
split_documents_result(documents) ==
    IF documents = <<>> THEN <<>>
    ELSE chunk_documents(Head(documents),
                         _split_text(splitter, Head(documents).page_content, splitter.separators))
         \o split_documents_result(Tail(documents))

\* the chunk keys written into the input document's own metadata dict
\* instead of a new one: the input keeps the keys of its last chunk
documents_updated_in_place(documents) ==
    [j \in 1..Len(documents) |->
        LET made == chunk_documents(documents[j],
                        _split_text(splitter, documents[j].page_content, splitter.separators))
        IN IF made = <<>> THEN documents[j]
           ELSE Document(documents[j].page_content, made[Len(made)].metadata)]

\* the input list as split_documents leaves it: nothing is written to it
documents_after(documents) == documents

\* split_documents(documents); after is the caller's list after the call
split_documents(documents) ==
    /\ splitter.built
    /\ ~split_ret.called
    /\ split_ret' = [called |-> TRUE, op |-> "split_documents", documents |-> documents,
                     after |-> documents_after(documents),
                     result |-> split_documents_result(documents)]
    /\ UNCHANGED splitter
    /\ UNCHANGED splitOther

(***************************************************************************)
(* RedisQueryCache (src/src/cache/query_cache.py) and RedisEmbeddingCache  *)
(* (src/src/cache/embedding_cache.py).  A cache object is [collection,     *)
(* ttl], respectively [model_name, ttl].                                   *)
(***************************************************************************)
\* query_cache.py binds PREFIX twice, lines 8-9; the second binding stands
QC_PREFIX == "ratelimit"
EMBEDDING_MODEL == "all-MiniLM-L6-v2"

Questions == {"q1", "q2"}

\* hashlib.sha256(data.encode()).hexdigest()[:16], on the strings of the model
sha256_16(data) ==
    CASE data = "q1" -> "c75de8c1b7c3ae52"
      [] data = "q2" -> "bee98bf120e89063"
      [] data = "default:q1:1" -> "39feaef8ecf4be1c"
      [] data = "default:q1:2" -> "cda3d24f550977f1"
      [] data = "default:q2:1" -> "5d5b2b0428793606"
      [] data = "default:q2:2" -> "5e6d23d233465acd"
      [] data = "A:q1:1" -> "71cd37394d451e23"
      [] data = "A:q1:2" -> "0fcb38d7ab0a6b11"
      [] data = "A:q2:1" -> "9aedbb62a1d0e864"
      [] data = "A:q2:2" -> "5f2e5247f627097b"

\* RedisManager.get: json.loads of the value, None for a missing key
rm_get(db, key) == IF r_exists(db, key) THEN json_loads(db.data[key]) ELSE None

\* full_key of RedisManager's methods, lines 100, 127, 150, 166, 212 and 230
full_key(key, prefix) == IF prefix # "" THEN prefix \o ":" \o key ELSE key

\* RedisManager.expire(key, ttl): EXPIRE, answered with whether the key exists
rm_expire(db, key, ttl) == [db |-> r_expire(db, key, ttl), value |-> r_exists(db, key)]

\* RedisManager.flush_prefix(prefix) makes two round trips.  Lines 193-194:
\* the names KEYS lists for the pattern prefix:*
flush_prefix_keys(db, prefix) == r_keys(db, prefix \o ":*")

\* lines 195-196: one DEL of the names listed, answered with the number of
\* keys it removed
flush_prefix_del(db, keys) ==
    [db |-> r_del_keys(db, keys), value |-> Cardinality(keys \cap DOMAIN db.data)]

\* the optional ttl argument of a cache's set: None, or a number of seconds
NoTtl == [given |-> FALSE]
Ttl(seconds) == [given |-> TRUE, seconds |-> seconds]

\* ttl or self.ttl: None and 0 both give way to the configured TTL
ttl_or(ttl, default) == IF ttl.given /\ ttl.seconds # 0 THEN ttl.seconds ELSE default

\* RedisQueryCache._make_key, lines 54-64: cache holds what __init__ binds on
\* the instance, and PREFIX is a name of the module (lines 8-9)
qc_make_key(cache, query, top_k) ==
    fstring(<<getattr(cache, "PREFIX"), ":", cache.collection, ":",
              sha256_16(cache.collection \o ":" \o query \o ":" \o str(top_k))>>)

qc_get(db, cache, query, top_k) ==
    IF qc_make_key(cache, query, top_k) = AttributeError THEN AttributeError
    ELSE rm_get(db, qc_make_key(cache, query, top_k))

\* the result with _cached_at, _collection and _top_k added, lines 99-104
cache_data(cache, result, top_k, cached_at) ==
    [_cached_at |-> cached_at, _collection |-> cache.collection, _top_k |-> top_k] @@ result

\* set: the key first, then the data under it with the cache's TTL
qc_set(db, cache, query, result, top_k, ttl, cached_at) ==
    IF qc_make_key(cache, query, top_k) = AttributeError THEN AttributeError
    ELSE rm_set(db, qc_make_key(cache, query, top_k),
                json_dumps(cache_data(cache, result, top_k, cached_at)), ttl_or(ttl, cache.ttl))

\* invalidate: RedisManager.delete of the key
qc_invalidate(db, cache, query, top_k) ==
    IF qc_make_key(cache, query, top_k) = AttributeError THEN AttributeError
    ELSE r_del(db, qc_make_key(cache, query, top_k))

\* RedisEmbeddingCache._make_key, lines 49-52: PREFIX is a name of the module
\* (line 10)
emb_make_key(cache, text) ==
    fstring(<<getattr(cache, "PREFIX"), ":", cache.model_name, ":", sha256_16(text)>>)

emb_get(db, cache, text) ==
    IF emb_make_key(cache, text) = AttributeError THEN AttributeError
    ELSE rm_get(db, emb_make_key(cache, text))

emb_set(db, cache, text, embedding, ttl) ==
    IF emb_make_key(cache, text) = AttributeError THEN AttributeError
    ELSE rm_set(db, emb_make_key(cache, text), json_dumps(embedding), ttl_or(ttl, cache.ttl))

\* the prefix of the pattern clear_all flushes, embedding_cache.py line 146
emb_clear_prefix(cache) == fstring(<<getattr(cache, "PREFIX"), ":", cache.model_name>>)

\* the prefix of the pattern clear_all flushes, query_cache.py line 133
qc_clear_prefix(cache) == getattr(cache, "PREFIX")

\* the prefix clear_collection flushes, query_cache.py line 127
qc_collection_prefix(cache) == fstring(<<getattr(cache, "PREFIX"), ":", cache.collection>>)

(***************************************************************************)
(* RetrievalService (src/api/services/retrieval.py).  svc holds the        *)
(* settings the service reads: [redis_enabled, query_cache_ttl,            *)
(* embedding_cache_ttl].  The caches are built when first used, the query   *)
(* cache without a collection argument.  A call of query,                  *)
(* get_relevant_documents, get_cache_stats or clear_caches is a sequence   *)
(* of steps: a read of a cache property (a PING when no cache is built),   *)
(* a round trip to the server, a call of the embedding model, of the store *)
(* or of the LLM.                                                          *)
(***************************************************************************)
DefaultSvc ==
    [redis_enabled |-> TRUE, query_cache_ttl |-> 3600, embedding_cache_ttl |-> 604800,
     backend_up |-> TRUE, _query_cache |-> FALSE, _embedding_cache |-> FALSE,
     _rate_limiter |-> FALSE]

\* the settings of a service whose caches are not built yet, on a server that answers
Unbuilt(settings) ==
    {setting @@ [backend_up |-> TRUE, _query_cache |-> FALSE, _embedding_cache |-> FALSE,
                 _rate_limiter |-> FALSE] :
        setting \in settings}

\* the query_cache property, lines 52-68: whether it returns a cache object.
\* One is built when there is none, Redis is enabled and ping() answers.
has_query_cache(service) == service._query_cache \/ (service.redis_enabled /\ service.backend_up)

\* the embedding_cache property, lines 74-91
has_embedding_cache(service) ==
    service._embedding_cache \/ (service.redis_enabled /\ service.backend_up)

\* an exception that leaves query or check_rate_limit, in place of a result
Failure(error) == [error |-> error]

\* redis.ConnectionError out of a RedisManager call, caught nowhere in query
ConnectionError == Failure("ConnectionError")
ResponseError == Failure("ResponseError")

\* the query_cache property, lines 52-68: RedisQueryCache(redis_manager, ttl)
query_cache == [collection |-> "default", ttl |-> svc.query_cache_ttl]

\* the embedding_cache property, lines 74-91
embedding_cache == [model_name |-> EMBEDDING_MODEL, ttl |-> svc.embedding_cache_ttl]

\* EmbeddingModel.embed on the questions of the model
embed(text) == CASE text = "q1" -> <<1, 0>> [] text = "q2" -> <<0, 1>>

NO_INFO == "I couldn't find any relevant information to answer your question."
LlmOutcomes == {"ok", "raise"}

\* self.llm(prompt), with the except clause of lines 279-282
llm_answer(context, question, outcome) ==
    IF outcome = "ok" THEN "answer to " \o question \o " from " \o context
    ELSE "Error generating response: " \o "timeout"

\* page_content[:300] + "..." if len(page_content) > 300 else page_content
preview(page_content) ==
    IF Len(page_content) > 300 THEN SubSeq(page_content, 1, 300) \o "..." ELSE page_content

\* lines 248-257
sources_of(results) ==
    [i \in 1..Len(results) |->
        [content |-> preview(results[i].doc.page_content),
         source |-> dict_get(results[i].doc.metadata, "source", "unknown"),
         score |-> results[i].score,
         metadata |-> results[i].doc.metadata]]

context_of(results) == join("\n\n---\n\n", [i \in 1..Len(results) |-> results[i].doc.page_content])

query_result(answer, sources, question, collection, from_emb_cache) ==
    [answer |-> answer, sources |-> sources, query |-> question, collection |-> collection,
     _from_cache |-> FALSE, _embedding_cached |-> from_emb_cache]

\* svc_ret: the last call of the service that ended, its result, the calls it
\* made on its collaborators in the order it made them, and how many calls of
\* query, get_relevant_documents, get_cache_stats and clear_caches ended
NoQuery == [op |-> None, arg |-> None, value |-> None, calls |-> 0, steps |-> <<>>]
ServiceReturned(op, arg, value, steps) ==
    [op |-> op, arg |-> arg, value |-> value, calls |-> svc_ret.calls + 1, steps |-> steps]

svcRest == <<next_uuid, ret, mem, limiter, allowed, splitter, split_ret, cache_ret, cache_log>>
svcOther == <<proc, svcRest>>

\* a call of the service that has not returned: the line of retrieval.py it
\* executes next, the calls it has made, and its local variables
NoLocals == [name \in {} |-> None]
InService(line, op, arg) ==
    [pc |-> line, op |-> op, arg |-> arg, steps |-> <<>>, locals |-> NoLocals]

\* the call at another line, after one more call on a collaborator, with
\* local variables assigned
at_line(call, line) == [call EXCEPT !.pc = line]
having_made(call, name) == [call EXCEPT !.steps = Append(@, name)]
with_locals(call, locals) == [call EXCEPT !.locals = locals @@ @]

\* the call of caller p goes on, or ends with a value or an exception
goes_on(p, call) ==
    /\ proc' = [proc EXCEPT ![p] = call]
    /\ UNCHANGED svc_ret

ends(p, call, value) ==
    /\ proc' = [proc EXCEPT ![p] = Idle]
    /\ svc_ret' = ServiceReturned(call.op, call.arg, value, call.steps)

\* the filter of step 2, lines 214-216 and 310-312
filter_dict(collection) ==
    IF collection \notin {None, ""} THEN [collection |-> collection] ELSE NoFilter

\* line 205, use_cache and self.query_cache: the property is read, which
\* pings the server when no cache is built; the key of the get of line 206 is
\* built before the GET is sent
line_205(p, call) ==
    LET asked == IF call.arg.use_cache THEN [svc EXCEPT !._query_cache = has_query_cache(svc)]
                 ELSE svc
    IN /\ svc' = asked
       /\ UNCHANGED redis
       /\ IF call.arg.use_cache /\ asked._query_cache
          THEN IF qc_make_key(query_cache, call.arg.question, call.arg.top_k) = AttributeError
               THEN ends(p, having_made(call, "query_cache.get"), Failure(AttributeError))
               ELSE goes_on(p, at_line(having_made(call, "query_cache.get"), "206"))
          ELSE goes_on(p, at_line(call, "156"))

\* lines 206-209: the GET of the query cache, and the cached result returned
\* with _from_cache set
line_206(p, call) ==
    LET key == qc_make_key(query_cache, call.arg.question, call.arg.top_k)
    IN /\ UNCHANGED <<svc, redis>>
       /\ IF ~svc.backend_up THEN ends(p, call, ConnectionError)
          ELSE IF r_exists(redis, key)
          THEN ends(p, call, [_from_cache |-> TRUE] @@ rm_get(redis, key))
          ELSE goes_on(p, at_line(call, "156"))

\* _get_cached_embedding(text), lines 153-166, of the call of caller p.  The
\* embedding_cache property is read at line 156 and again at line 163, each
\* read pinging the server when no cache is built; the GET of line 157, the
\* embed of line 161 and the SETEX of line 164 are steps of their own.
_get_cached_embedding(p, call) ==
    LET text == call.arg.question
        asked == [svc EXCEPT !._embedding_cache = has_embedding_cache(svc)]
        key == emb_make_key(embedding_cache, text)
    IN CASE call.pc = "156" ->
                /\ svc' = asked
                /\ UNCHANGED redis
                /\ IF asked._embedding_cache
                   THEN IF key = AttributeError
                        THEN ends(p, having_made(call, "embedding_cache.get"), Failure(AttributeError))
                        ELSE goes_on(p, at_line(having_made(call, "embedding_cache.get"), "157"))
                   ELSE goes_on(p, at_line(call, "161"))
         [] call.pc = "157" ->
                /\ UNCHANGED <<svc, redis>>
                /\ IF ~svc.backend_up THEN ends(p, call, ConnectionError)
                   ELSE IF r_exists(redis, key)
                   THEN goes_on(p, at_line(with_locals(call, [embedding |-> rm_get(redis, key),
                                                  from_emb_cache |-> TRUE]),
                                      "226"))
                   ELSE goes_on(p, at_line(call, "161"))
         [] call.pc = "161" ->
                /\ UNCHANGED <<svc, redis>>
                /\ goes_on(p, at_line(with_locals(having_made(call, "embed"),
                                      [embedding |-> embed(text), from_emb_cache |-> FALSE]),
                                 "163"))
         [] call.pc = "163" ->
                /\ svc' = asked
                /\ UNCHANGED redis
                /\ IF asked._embedding_cache
                   THEN IF key = AttributeError
                        THEN ends(p, having_made(call, "embedding_cache.set"), Failure(AttributeError))
                        ELSE goes_on(p, at_line(having_made(call, "embedding_cache.set"), "164"))
                   ELSE goes_on(p, at_line(call, "226"))
         [] call.pc = "164" ->
                /\ UNCHANGED svc
                /\ IF ~svc.backend_up
                   THEN UNCHANGED redis /\ ends(p, call, ConnectionError)
                   ELSE /\ redis' = emb_set(redis, embedding_cache, text, call.locals.embedding,
                                            NoTtl)
                        /\ goes_on(p, at_line(call, "226"))

\* lines 322-330: what get_relevant_documents returns for the results
documents_of(results) ==
    [i \in 1..Len(results) |->
        [content |-> results[i].doc.page_content,
         source |-> dict_get(results[i].doc.metadata, "source", "unknown"),
         score |-> results[i].score,
         metadata |-> results[i].doc.metadata]]

\* the similarity search of lines 226-230 and 316-320, on the store's own
\* connection, and what follows it without another call: the list
\* get_relevant_documents returns, and the answer of lines 232-240 when query
\* found nothing
line_226(p, call) ==
    LET filter == filter_dict(call.arg.collection)
        searched == having_made(call, "similarity_search")
    IN /\ UNCHANGED <<svc, redis>>
       /\ IF get_all_raises(redis, dict_get(filter, "collection", None))
          THEN ends(p, searched, Failure(AttributeError))
          ELSE \E rank \in Perms({uuid4(n) : n \in 1..next_uuid}) :
               IF search_raises(redis, call.locals.embedding, filter, rank)
               THEN ends(p, searched, Failure("ValueError"))
               ELSE LET results == search(redis, call.locals.embedding, call.arg.top_k, filter,
                                          rank)
                    IN IF call.op = "get_relevant_documents"
                       THEN ends(p, searched, documents_of(results))
                       ELSE IF results = <<>>
                       THEN ends(p, searched,
                                 query_result(NO_INFO, <<>>, call.arg.question,
                                              call.arg.collection, call.locals.from_emb_cache))
                       ELSE goes_on(p, at_line(with_locals(searched, [results |-> results]), "280"))

\* lines 245-291: the context, the call of the LLM with its except clause,
\* and the result
line_280(p, call) ==
    /\ UNCHANGED <<svc, redis>>
    /\ \E outcome \in LlmOutcomes :
           goes_on(p, at_line(with_locals(having_made(call, "llm"),
                              [result |-> query_result(
                                              llm_answer(context_of(call.locals.results),
                                                         call.arg.question, outcome),
                                              IF call.arg.include_sources
                                              THEN sources_of(call.locals.results) ELSE <<>>,
                                              call.arg.question, call.arg.collection,
                                              call.locals.from_emb_cache)]),
                         "296"))

\* line 296, use_cache and self.query_cache: the property is read once more;
\* the key of the set of line 297 is built before the SETEX is sent
line_296(p, call) ==
    LET asked == IF call.arg.use_cache THEN [svc EXCEPT !._query_cache = has_query_cache(svc)]
                 ELSE svc
    IN /\ svc' = asked
       /\ UNCHANGED redis
       /\ IF call.arg.use_cache /\ asked._query_cache
          THEN IF qc_make_key(query_cache, call.arg.question, call.arg.top_k) = AttributeError
               THEN ends(p, having_made(call, "query_cache.set"), Failure(AttributeError))
               ELSE goes_on(p, at_line(having_made(call, "query_cache.set"), "297"))
          ELSE ends(p, call, call.locals.result)

\* lines 297-299: the SETEX of the result, and the result returned
line_297(p, call) ==
    /\ UNCHANGED svc
    /\ IF ~svc.backend_up
       THEN UNCHANGED redis /\ ends(p, call, ConnectionError)
       ELSE \E cached_at \in Range(Stamps) :
                /\ redis' = qc_set(redis, query_cache, call.arg.question, call.locals.result,
                                   call.arg.top_k, NoTtl, cached_at)
                /\ ends(p, call, call.locals.result)

\* the pattern whose keys RedisEmbeddingCache.stats counts, embedding_cache.py
\* line 154
emb_stats_pattern(cache) ==
    fstring(<<getattr(cache, "PREFIX"), ":", cache.model_name, ":*">>)

\* RedisEmbeddingCache.stats(), lines 153-160
emb_stats(db, cache) ==
    [model |-> cache.model_name,
     cached_embeddings |-> Cardinality(r_keys(db, emb_stats_pattern(cache))),
     ttl_seconds |-> cache.ttl]

\* line 338: the embedding_cache property is read; the pattern of stats() is
\* built before its KEYS is sent
line_338(p, call) ==
    LET asked == [svc EXCEPT !._embedding_cache = has_embedding_cache(svc)]
    IN /\ svc' = asked
       /\ UNCHANGED redis
       /\ IF asked._embedding_cache
          THEN IF emb_stats_pattern(embedding_cache) = AttributeError
               THEN ends(p, having_made(call, "embedding_cache.stats"), Failure(AttributeError))
               ELSE goes_on(p, at_line(having_made(call, "embedding_cache.stats"), "339"))
          ELSE ends(p, call, [redis_enabled |-> svc.redis_enabled])

\* lines 339-341: the KEYS of stats(), and the statistics returned
line_339(p, call) ==
    /\ UNCHANGED <<svc, redis>>
    /\ IF ~svc.backend_up THEN ends(p, call, ConnectionError)
       ELSE ends(p, call, [redis_enabled |-> svc.redis_enabled,
                           embedding_cache |-> emb_stats(redis, embedding_cache)])

\* clear_caches, lines 346-355.  Each property is read when its line is
\* reached; clear_all builds its prefix, then flush_prefix makes its KEYS
\* (lines 350 and 353) and, when names were listed, its DEL.
clear_caches_step(p, call) ==
    LET asked_query == [svc EXCEPT !._query_cache = has_query_cache(svc)]
        asked_embedding == [svc EXCEPT !._embedding_cache = has_embedding_cache(svc)]
        listed(prefix) == flush_prefix_keys(redis, prefix)
        done == flush_prefix_del(redis, call.locals.keys)
    IN CASE call.pc = "349" ->
                /\ svc' = asked_query
                /\ UNCHANGED redis
                /\ IF asked_query._query_cache
                   THEN IF qc_clear_prefix(query_cache) = AttributeError
                        THEN ends(p, having_made(call, "query_cache.clear_all"),
                                  Failure(AttributeError))
                        ELSE goes_on(p, at_line(having_made(call, "query_cache.clear_all"), "350"))
                   ELSE goes_on(p, at_line(call, "352"))
         [] call.pc = "350" ->
                /\ UNCHANGED <<svc, redis>>
                /\ IF ~svc.backend_up THEN ends(p, call, ConnectionError)
                   ELSE IF listed(qc_clear_prefix(query_cache)) = {}
                   THEN goes_on(p, at_line(with_locals(call, [cleared |-> [query_cache |-> 0]]), "352"))
                   ELSE goes_on(p, at_line(with_locals(call, [keys |-> listed(qc_clear_prefix(query_cache))]),
                                      "350 DEL"))
         [] call.pc = "350 DEL" ->
                /\ UNCHANGED svc
                /\ IF ~svc.backend_up
                   THEN UNCHANGED redis /\ ends(p, call, ConnectionError)
                   ELSE /\ redis' = done.db
                        /\ goes_on(p, at_line(with_locals(call, [cleared |-> [query_cache |-> done.value]]),
                                         "352"))
         [] call.pc = "352" ->
                /\ svc' = asked_embedding
                /\ UNCHANGED redis
                /\ IF asked_embedding._embedding_cache
                   THEN IF emb_clear_prefix(embedding_cache) = AttributeError
                        THEN ends(p, having_made(call, "embedding_cache.clear_all"),
                                  Failure(AttributeError))
                        ELSE goes_on(p, at_line(having_made(call, "embedding_cache.clear_all"), "353"))
                   ELSE ends(p, call, call.locals.cleared)
         [] call.pc = "353" ->
                /\ UNCHANGED <<svc, redis>>
                /\ IF ~svc.backend_up THEN ends(p, call, ConnectionError)
                   ELSE IF listed(emb_clear_prefix(embedding_cache)) = {}
                   THEN ends(p, call, [embedding_cache |-> 0] @@ call.locals.cleared)
                   ELSE goes_on(p, at_line(with_locals(call,
                                           [keys |-> listed(emb_clear_prefix(embedding_cache))]),
                                      "353 DEL"))
         [] call.pc = "353 DEL" ->
                /\ UNCHANGED svc
                /\ IF ~svc.backend_up
                   THEN UNCHANGED redis /\ ends(p, call, ConnectionError)
                   ELSE /\ redis' = done.db
                        /\ ends(p, call, [embedding_cache |-> done.value] @@ call.locals.cleared)

ServiceLines ==
    {"206", "156", "157", "161", "163", "164", "226", "280", "296", "297", "339",
     "350", "350 DEL", "352", "353", "353 DEL"}

\* RetrievalService.query entered by caller p: line 205.  What follows is
\* made step by step, the server coming and going between the steps.  A
\* cache object that was built is used whether or not the server still
\* answers: the exception of its call leaves query.
query(p, question, collection, top_k, include_sources, use_cache) ==
    /\ \A other \in Procs : proc[other] = Idle
    /\ line_205(p, InService("205", "query",
                             [question |-> question, collection |-> collection,
                              top_k |-> top_k, include_sources |-> include_sources,
                              use_cache |-> use_cache]))
    /\ UNCHANGED svcRest

\* RetrievalService.get_relevant_documents entered by caller p, lines
\* 304-314: the filter, and line 156 of _get_cached_embedding
get_relevant_documents(p, question, collection, top_k) ==
    /\ \A other \in Procs : proc[other] = Idle
    /\ _get_cached_embedding(p, InService("156", "get_relevant_documents",
                                          [question |-> question, collection |-> collection,
                                           top_k |-> top_k]))
    /\ UNCHANGED svcRest

\* RetrievalService.get_cache_stats entered by caller p, lines 335-338
get_cache_stats(p) ==
    /\ \A other \in Procs : proc[other] = Idle
    /\ line_338(p, InService("338", "get_cache_stats", None))
    /\ UNCHANGED svcRest

\* RetrievalService.clear_caches entered by caller p, lines 346-349
clear_caches(p) ==
    /\ \A other \in Procs : proc[other] = Idle
    /\ clear_caches_step(p, with_locals(InService("349", "clear_caches", None),
                                 [cleared |-> NoLocals]))
    /\ UNCHANGED svcRest

\* the next step of the call of the service caller p is in
service_step(p) ==
    LET call == proc[p]
    IN /\ call.pc \in ServiceLines
       /\ CASE call.pc = "206" -> line_206(p, call)
            [] call.pc \in {"156", "157", "161", "163", "164"} -> _get_cached_embedding(p, call)
            [] call.pc = "226" -> line_226(p, call)
            [] call.pc = "280" -> line_280(p, call)
            [] call.pc = "296" -> line_296(p, call)
            [] call.pc = "297" -> line_297(p, call)
            [] call.pc = "339" -> line_339(p, call)
            [] OTHER -> clear_caches_step(p, call)
       /\ UNCHANGED svcRest

\* the server stops answering the cache connection, or answers again
backend_fails ==
    /\ svc.backend_up
    /\ svc' = [svc EXCEPT !.backend_up = FALSE]
    /\ UNCHANGED <<redis, svc_ret>>
    /\ UNCHANGED svcOther

backend_recovers ==
    /\ ~svc.backend_up
    /\ svc' = [svc EXCEPT !.backend_up = TRUE]
    /\ UNCHANGED <<redis, svc_ret>>
    /\ UNCHANGED svcOther

\* the rate_limiter property, lines 98-116: whether it returns a limiter.
\* One is built when there is none, Redis is enabled and ping() answers.
has_rate_limiter(service) == service._rate_limiter \/ (service.redis_enabled /\ service.backend_up)

\* RetrievalService.check_rate_limit(identifier), lines 173-181.  A limiter
\* that was built is used whether or not the server still answers: the
\* exception of is_allowed leaves check_rate_limit, AttributeError when the
\* key cannot be built, else the ConnectionError of its GET.  lost: the server
\* stops answering between is_allowed and get_remaining.
check_rate_limit(identifier, lost) ==
    LET asked == [svc EXCEPT !._rate_limiter = has_rate_limiter(svc)]
        answer == is_allowed_call(redis, identifier)
        up == svc.backend_up /\ ~lost
        answered == asked._rate_limiter /\ svc.backend_up /\ answer.error = None
    IN /\ \A p \in Procs : proc[p] = Idle
       /\ svc' = [asked EXCEPT !.backend_up = up]
       /\ redis' = IF answered THEN answer.db ELSE redis
       /\ allowed' = IF answered /\ answer.value
                     THEN [allowed EXCEPT ![identifier] = @ + 1] ELSE allowed
       /\ svc_ret' = [op |-> "check_rate_limit", arg |-> identifier, calls |-> svc_ret.calls,
                      steps |-> <<>>,
                      value |-> IF ~asked._rate_limiter THEN [allowed |-> TRUE, remaining |-> -1]
                                ELSE IF answer.error # None THEN Failure(answer.error)
                                ELSE IF ~up THEN ConnectionError
                                ELSE [allowed |-> answer.value,
                                      remaining |-> get_remaining_call(answer.db, identifier)]]
       /\ UNCHANGED <<next_uuid, proc, ret, mem, limiter, splitter, split_ret, cache_ret, cache_log>>

(***************************************************************************)
(* Calls made on the cache objects themselves and on the RedisManager they *)
(* share.  cache_log keeps, for every entry written through a cache, the   *)
(* value and the lifetime its writer asked for: the ttl argument, or the   *)
(* configured TTL of the cache when none was given.                        *)
(***************************************************************************)
cacheRest == <<next_uuid, ret, mem, limiter, allowed, splitter, split_ret, svc, svc_ret>>
cacheOther == <<proc, cacheRest>>

CacheEmbs == {<<1, 0>>, <<0, 1>>}
Ttls == {NoTtl} \cup {Ttl(seconds) : seconds \in 0..MaxTtl}

Asked(ttl, default) == IF ttl.given THEN ttl.seconds ELSE default

\* RedisQueryCache(redis_manager, collection, ttl)
RedisQueryCache(collection) == [collection |-> collection, ttl |-> svc.query_cache_ttl]

\* RedisEmbeddingCache(redis_manager, model_name, ttl)
RedisEmbeddingCache(model_name) == [model_name |-> model_name, ttl |-> svc.embedding_cache_ttl]

\* the key of the server an entry of cache_log was written under
entry_key(entry) ==
    IF "text" \in DOMAIN entry THEN emb_make_key(embedding_cache, entry.text)
    ELSE qc_make_key(RedisQueryCache(entry.collection), entry.query, entry.top_k)

\* cache_log once the server holds the keys for seconds more
log_expire(log, keys, seconds) ==
    [entry \in DOMAIN log |->
        IF entry_key(entry) \in keys THEN [log[entry] EXCEPT !.left = seconds] ELSE log[entry]]

\* a caller between the two round trips of flush_prefix: the call op(arg) it
\* made on the object on, and the names KEYS listed
InFlush(on, op, arg, keys) ==
    [pc |-> "flush_prefix", on |-> on, op |-> op, arg |-> arg, keys |-> keys]

\* RedisManager.flush_prefix(prefix), lines 193-195 and 197, made by caller
\* p for the call op(arg) on the object on: KEYS, and 0 when it lists nothing
flush_prefix(p, on, op, arg, prefix) ==
    LET keys == flush_prefix_keys(redis, prefix)
    IN /\ IF keys = {}
          THEN /\ cache_ret' = CacheReturned(on, op, arg, FALSE, 0)
               /\ UNCHANGED proc
          ELSE /\ cache_ret' = NoCacheCall
               /\ proc' = [proc EXCEPT ![p] = InFlush(on, op, arg, keys)]
       /\ UNCHANGED <<redis, cache_log>>
       /\ UNCHANGED cacheRest

\* line 196: the DEL of the names listed, whatever other callers did to them
\* since; the call returns the number of keys the DEL removed
flush_prefix_delete(p) ==
    LET call == proc[p]
        done == flush_prefix_del(redis, call.keys)
    IN /\ call.pc = "flush_prefix"
       /\ redis' = done.db
       /\ cache_ret' = CacheReturned(call.on, call.op, call.arg, FALSE, done.value)
       /\ cache_log' = log_expire(cache_log, call.keys, 0)
       /\ proc' = [proc EXCEPT ![p] = Idle]
       /\ UNCHANGED cacheRest

\* RedisManager.set(key, value, ttl, prefix) called on the manager: SETEX
\* when ttl is truthy, else SET
manager_set(key, value, ttl, prefix) ==
    /\ redis' = rm_set(redis, full_key(key, prefix), value, ttl)
    /\ cache_ret' = CacheReturned("manager", "set",
                                  [key |-> key, ttl |-> ttl, prefix |-> prefix], FALSE, TRUE)
    /\ UNCHANGED cache_log
    /\ UNCHANGED cacheOther

\* RedisManager.expire(key, ttl, prefix), lines 224-231
manager_expire(key, ttl, prefix) ==
    LET done == rm_expire(redis, full_key(key, prefix), ttl)
    IN /\ redis' = done.db
       /\ cache_ret' = CacheReturned("manager", "expire",
                                     [key |-> key, ttl |-> ttl, prefix |-> prefix], FALSE,
                                     done.value)
       /\ cache_log' = log_expire(cache_log, {full_key(key, prefix)}, Max(ttl, 0))
       /\ UNCHANGED cacheOther

\* RedisManager.delete(key, prefix), lines 149-151: True when a key was deleted
manager_delete(key, prefix) ==
    /\ redis' = r_del(redis, full_key(key, prefix))
    /\ cache_ret' = CacheReturned("manager", "delete", [key |-> key, prefix |-> prefix], FALSE,
                                  r_exists(redis, full_key(key, prefix)))
    /\ cache_log' = log_expire(cache_log, {full_key(key, prefix)}, 0)
    /\ UNCHANGED cacheOther

\* RedisManager.incr(key, prefix), lines 212-213: INCR, which returns the new
\* count; the server refuses a value that is not the text of an integer
\* (redis.ResponseError) and leaves it as it is
manager_incr(key, prefix) ==
    LET arg == [key |-> key, prefix |-> prefix]
        done == r_incr(redis, full_key(key, prefix))
    IN /\ IF r_exists(redis, full_key(key, prefix))
             /\ ~is_integer(redis.data[full_key(key, prefix)])
          THEN /\ cache_ret' = CacheRaised("manager", "incr", arg, ResponseError)
               /\ UNCHANGED redis
          ELSE /\ redis' = done
               /\ cache_ret' = CacheReturned("manager", "incr", arg, FALSE,
                                             int(done.data[full_key(key, prefix)]))
       /\ UNCHANGED cache_log
       /\ UNCHANGED cacheOther

\* RedisManager.flush_prefix(prefix) called on the manager by caller p
manager_flush_prefix(p, prefix) ==
    /\ proc[p] = Idle
    /\ flush_prefix(p, "manager", "flush_prefix", [prefix |-> prefix], prefix)

\* RedisEmbeddingCache.set(text, embedding, ttl)
emb_cache_set(text, embedding, ttl) ==
    LET arg == [text |-> text, ttl |-> ttl]
    IN IF emb_make_key(embedding_cache, text) = AttributeError
       THEN /\ cache_ret' = CacheRaised("emb", "set", arg, AttributeError)
            /\ UNCHANGED <<redis, cache_log>>
            /\ UNCHANGED cacheOther
       ELSE /\ redis' = emb_set(redis, embedding_cache, text, embedding, ttl)
            /\ cache_ret' = CacheReturned("emb", "set", arg, FALSE, None)
            /\ cache_log' = Put(cache_log, [text |-> text],
                                [value |-> embedding, left |-> Asked(ttl, embedding_cache.ttl),
                                 asked |-> ttl])
            /\ UNCHANGED cacheOther

\* RedisEmbeddingCache.get(text)
emb_cache_get(text) ==
    /\ cache_ret' = IF emb_make_key(embedding_cache, text) = AttributeError
                    THEN CacheRaised("emb", "get", [text |-> text], AttributeError)
                    ELSE CacheReturned("emb", "get", [text |-> text],
                                       r_exists(redis, emb_make_key(embedding_cache, text)),
                                       emb_get(redis, embedding_cache, text))
    /\ UNCHANGED <<redis, cache_log>>
    /\ UNCHANGED cacheOther

\* RedisEmbeddingCache.invalidate(text): True when a key was deleted
emb_cache_invalidate(text) ==
    IF emb_make_key(embedding_cache, text) = AttributeError
    THEN /\ cache_ret' = CacheRaised("emb", "invalidate", [text |-> text], AttributeError)
         /\ UNCHANGED <<redis, cache_log>>
         /\ UNCHANGED cacheOther
    ELSE /\ redis' = r_del(redis, emb_make_key(embedding_cache, text))
         /\ cache_ret' = CacheReturned("emb", "invalidate", [text |-> text], FALSE,
                                       r_exists(redis, emb_make_key(embedding_cache, text)))
         /\ cache_log' = IF [text |-> text] \in DOMAIN cache_log
                         THEN [cache_log EXCEPT ![[text |-> text]].left = 0] ELSE cache_log
         /\ UNCHANGED cacheOther

\* RedisEmbeddingCache.clear_all() by caller p: the prefix is built first,
\* then flush_prefix makes its round trips
emb_cache_clear_all(p) ==
    LET prefix == emb_clear_prefix(embedding_cache)
    IN /\ proc[p] = Idle
       /\ IF prefix = AttributeError
          THEN /\ cache_ret' = CacheRaised("emb", "clear_all", None, AttributeError)
               /\ UNCHANGED <<redis, cache_log>>
               /\ UNCHANGED cacheOther
          ELSE flush_prefix(p, "emb", "clear_all", None, prefix)

CacheCollections == {"default", "A"}
CachedResults == {[answer |-> "a1"], [answer |-> "a2"]}

QueryEntry(collection, question, top_k) ==
    [collection |-> collection, query |-> question, top_k |-> top_k]

\* RedisQueryCache.set(query, result, top_k, ttl) on the cache of a collection
qc_cache_set(collection, question, result, top_k, ttl) ==
    LET cache == RedisQueryCache(collection)
        entry == QueryEntry(collection, question, top_k)
    IN IF qc_make_key(cache, question, top_k) = AttributeError
       THEN /\ cache_ret' = CacheRaised("query", "set", entry, AttributeError)
            /\ UNCHANGED <<redis, cache_log>>
            /\ UNCHANGED cacheOther
       ELSE \E cached_at \in Range(Stamps) :
            /\ redis' = qc_set(redis, cache, question, result, top_k, ttl, cached_at)
            /\ cache_ret' = CacheReturned("query", "set", entry, FALSE, None)
            /\ cache_log' = Put(cache_log, entry,
                                [value |-> cache_data(cache, result, top_k, cached_at),
                                 left |-> ttl_or(ttl, cache.ttl)])
            /\ UNCHANGED cacheOther

\* RedisQueryCache.get(query, top_k)
qc_cache_get(collection, question, top_k) ==
    LET cache == RedisQueryCache(collection)
        entry == QueryEntry(collection, question, top_k)
    IN /\ cache_ret' = IF qc_make_key(cache, question, top_k) = AttributeError
                       THEN CacheRaised("query", "get", entry, AttributeError)
                       ELSE CacheReturned("query", "get", entry,
                                          r_exists(redis, qc_make_key(cache, question, top_k)),
                                          qc_get(redis, cache, question, top_k))
       /\ UNCHANGED <<redis, cache_log>>
       /\ UNCHANGED cacheOther

\* RedisQueryCache.invalidate(query, top_k)
qc_cache_invalidate(collection, question, top_k) ==
    LET cache == RedisQueryCache(collection)
        entry == QueryEntry(collection, question, top_k)
    IN IF qc_make_key(cache, question, top_k) = AttributeError
       THEN /\ cache_ret' = CacheRaised("query", "invalidate", entry, AttributeError)
            /\ UNCHANGED <<redis, cache_log>>
            /\ UNCHANGED cacheOther
       ELSE /\ redis' = qc_invalidate(redis, cache, question, top_k)
            /\ cache_ret' = CacheReturned("query", "invalidate", entry, FALSE, None)
            /\ cache_log' = IF entry \in DOMAIN cache_log
                            THEN [cache_log EXCEPT ![entry].left = 0] ELSE cache_log
            /\ UNCHANGED cacheOther

\* RedisQueryCache.clear_all() by caller p: every cached query, of every
\* collection
qc_cache_clear_all(p, collection) ==
    LET prefix == qc_clear_prefix(RedisQueryCache(collection))
    IN /\ proc[p] = Idle
       /\ IF prefix = AttributeError
          THEN /\ cache_ret' = CacheRaised("query", "clear_all", None, AttributeError)
               /\ UNCHANGED <<redis, cache_log>>
               /\ UNCHANGED cacheOther
          ELSE flush_prefix(p, "query", "clear_all", None, prefix)

(***************************************************************************)
(* Cache objects of several embedding models and collections on one        *)
(* server, and the clearing calls of the two caches.                       *)
(***************************************************************************)
EmbCall(op, model_name, text, value) ==
    CacheReturned("emb", op, [model |-> model_name, text |-> text], FALSE, value)

EmbRaised(op, model_name, text) ==
    CacheRaised("emb", op, [model |-> model_name, text |-> text], AttributeError)

\* set(text, embedding) on the cache of a model
emb_set_on(model_name, text, embedding) ==
    /\ IF emb_make_key(RedisEmbeddingCache(model_name), text) = AttributeError
       THEN /\ cache_ret' = EmbRaised("set", model_name, text)
            /\ UNCHANGED redis
       ELSE /\ redis' = emb_set(redis, RedisEmbeddingCache(model_name), text, embedding, NoTtl)
            /\ cache_ret' = EmbCall("set", model_name, text, None)
    /\ UNCHANGED cache_log
    /\ UNCHANGED cacheOther

\* clear_all() on the cache of a model by caller p: flush_prefix of
\* PREFIX:model_name
emb_clear_all_on(p, model_name) ==
    LET prefix == emb_clear_prefix(RedisEmbeddingCache(model_name))
    IN /\ proc[p] = Idle
       /\ IF prefix = AttributeError
          THEN /\ cache_ret' = EmbRaised("clear_all", model_name, None)
               /\ UNCHANGED <<redis, cache_log>>
               /\ UNCHANGED cacheOther
          ELSE flush_prefix(p, "emb", "clear_all", [model |-> model_name, text |-> None],
                            prefix)

\* RedisQueryCache.clear_collection() by caller p: flush_prefix of
\* PREFIX:collection
qc_cache_clear_collection(p, collection) ==
    LET prefix == qc_collection_prefix(RedisQueryCache(collection))
    IN /\ proc[p] = Idle
       /\ IF prefix = AttributeError
          THEN /\ cache_ret' = CacheRaised("query", "clear_collection",
                                           [collection |-> collection], AttributeError)
               /\ UNCHANGED <<redis, cache_log>>
               /\ UNCHANGED cacheOther
          ELSE flush_prefix(p, "query", "clear_collection", [collection |-> collection],
                            prefix)

\* the embedding models with a cache on the server: a model, a tagged
\* variant of it, and another model
CacheModels == {"m", "m:v2", "n"}

\* keys, values, lifetimes and prefixes of calls made on the RedisManager:
\* two keys of one prefix and one whose prefix begins with the same letters;
\* the two keys are counted on with INCR, up to MaxManagerCount
ManagerKeys == {"emb:m:k1", "emb:m:k2", "emb:mm:k1"}
ManagerValues == {"1"}
MaxManagerTtl == 2
MaxManagerCount == 2
IncrKeys == {"emb:m:k1", "emb:m:k2"}
FlushPrefixes == {"emb:m", "emb:m*"}

\* a key whose counter, if it holds one, is below the largest a call on the
\* manager counts to
BelowMaxCount(key) ==
    (r_exists(redis, key) /\ is_integer(redis.data[key]))
        => int(redis.data[key]) < MaxManagerCount

(***************************************************************************)
(* Initial state: an empty server, a fresh store object, idle callers.     *)
(***************************************************************************)
InitStore ==
    /\ redis = EmptyDb
    /\ next_uuid = 0
    /\ proc = [p \in Procs |-> Idle]
    /\ ret = NoCall
    /\ mem = EmptyMem

InitLimiter(limiters) ==
    /\ limiter \in limiters
    /\ allowed = [identifier \in Identifiers |-> 0]

InitOther ==
    /\ splitter = NoSplitter
    /\ split_ret = [called |-> FALSE, text |-> "", chunks |-> <<>>]
    /\ svc_ret = NoQuery
    /\ cache_ret = NoCacheCall
    /\ cache_log = [entry \in {} |-> None]

Init == InitStore /\ InitLimiter({DefaultLimiter}) /\ InitOther /\ svc = DefaultSvc

(***************************************************************************)
(* Concurrent callers of one RedisVectorStore.  Each add brings one        *)
(* document with its embedding, each delete names at most one id.          *)
(***************************************************************************)
ConcBatches == {<<(<<d>>), (<<embedding_of(d)>>)>> : d \in {d \in Docs : "collection" \in DOMAIN d.metadata}}

Fits(batch, limit) == next_uuid + Min(Len(batch[1]), Len(batch[2])) <= limit

NextStore ==
    \/ \E p \in Procs, batch \in ConcBatches, collection \in {None, "A"} :
           Fits(batch, MaxConcIds) /\ add_documents(p, batch[1], batch[2], collection)
           /\ UNCHANGED otherVars
    \/ \E p \in Procs, ids \in IdLists(MaxConcIds, 1) : delete(p, ids) /\ UNCHANGED otherVars
    \/ \E p \in Procs : delete_get(p) /\ UNCHANGED otherVars
    \/ \E p \in Procs : delete_execute(p) /\ UNCHANGED otherVars
    \/ \E p \in Procs, source \in Sources : delete_by_source(p, source) /\ UNCHANGED otherVars
    \/ \E p \in Procs, collection \in Collections :
           delete_collection(p, collection) /\ UNCHANGED otherVars
    \/ \E p \in Procs : clear_all(p) /\ UNCHANGED otherVars

SpecStore == Init /\ [][NextStore]_vars

(***************************************************************************)
(* One sequential caller.  A behaviour works on one store object, the      *)
(* Redis store or an in-memory store: the two share nothing but uuid4.     *)
(***************************************************************************)
UsesRedis == ret.on # "mem"
UsesMem == ret.on # "redis" /\ \A p \in Procs : proc[p] = Idle

NextSeq ==
    \/ \E p \in SeqProcs, batch \in Batches(Docs), collection \in CollectionArgs :
           UsesRedis /\ Fits(batch, MaxIds) /\ add_documents(p, batch[1], batch[2], collection)
           /\ UNCHANGED otherVars
    \/ \E p \in SeqProcs, ids \in IdLists(MaxIds, MaxDelete) :
           UsesRedis /\ delete(p, ids) /\ UNCHANGED otherVars
    \/ \E p \in SeqProcs : delete_get(p) /\ UNCHANGED otherVars
    \/ \E p \in SeqProcs : delete_execute(p) /\ UNCHANGED otherVars
    \/ \E p \in SeqProcs, source \in Sources :
           UsesRedis /\ delete_by_source(p, source) /\ UNCHANGED otherVars
    \/ \E p \in SeqProcs, collection \in Collections :
           UsesRedis /\ delete_collection(p, collection) /\ UNCHANGED otherVars
    \/ \E p \in SeqProcs : UsesRedis /\ clear_all(p) /\ UNCHANGED otherVars
    \/ \E p \in SeqProcs, query_embedding \in QueryEmbs, k \in TopKs, filter \in Filters :
           UsesRedis /\ similarity_search(p, query_embedding, k, filter) /\ UNCHANGED otherVars
    \/ \E p \in SeqProcs, collection \in CollectionArgs :
           UsesRedis /\ list_sources(p, collection) /\ UNCHANGED otherVars
    \/ \E batch \in Batches(Docs) :
           UsesMem /\ Fits(batch, MaxIds) /\ mem_add_documents(batch[1], batch[2])
           /\ UNCHANGED otherVars
    \/ \E query_embedding \in QueryEmbs, k \in TopKs, filter \in Filters :
           UsesMem /\ mem_similarity_search(query_embedding, k, filter) /\ UNCHANGED otherVars
    \/ \E ids \in IdLists(MaxIds, MaxDelete) : UsesMem /\ mem_delete(ids) /\ UNCHANGED otherVars
    \/ UsesMem /\ mem_clear /\ UNCHANGED otherVars

SpecSeq == Init /\ [][NextSeq]_vars

(***************************************************************************)
(* The store's keys as the server holds them, under the names lines 15-19   *)
(* of redis_vector_store.py give them.  What the server holds is read with *)
(* these, whatever keys the store object itself can build.                 *)
(***************************************************************************)
StartsWith(key, prefix) ==
    Len(key) >= Len(prefix) /\ SubSeq(key, 1, Len(prefix)) = prefix

KeysOf(db, prefix) == {key \in DOMAIN db.data : StartsWith(key, prefix)}

DocKey(doc_id) == VS_PREFIX \o ":" \o DOC_PREFIX \o ":" \o doc_id
CollectionKey(collection) == VS_PREFIX \o ":" \o COLLECTION_IDX \o ":" \o collection
SourceKey(source) == VS_PREFIX \o ":" \o SOURCE_IDX \o ":" \o md5_12(source)
AllDocsKey == VS_PREFIX \o ":" \o ALL_DOCS_KEY

HasRecord(db, doc_id) == DocKey(doc_id) \in DOMAIN db.data
RecordOf(db, doc_id) == json_loads(db.data[DocKey(doc_id)])

\* the ids that have a stored record
StoredIds(db) ==
    LET prefix == DocKey("")
    IN {SubSeq(key, Len(prefix) + 1, Len(key)) : key \in KeysOf(db, prefix)}

CollectionIndexes(db) == KeysOf(db, CollectionKey(""))
SourceIndexes(db) == KeysOf(db, VS_PREFIX \o ":" \o SOURCE_IDX \o ":")

\* the call just answered was handed lists of different lengths
Mismatched(call) ==
    /\ call.op = "add_documents"
    /\ call.arg.n_documents # call.arg.n_embeddings

(***************************************************************************)
(* C7: an add_documents call whose documents and embeddings differ in      *)
(* length raises an error and changes nothing: no record, no index, no id  *)
(* is added, nothing is cut to the shorter list (both stores).             *)
(***************************************************************************)
C7_MismatchRejected ==
    /\ [](Mismatched(ret) => (ret.error = "ValueError" /\ ret.value = None))
    /\ [][Mismatched(ret') => (redis' = redis /\ mem' = mem /\ next_uuid' = next_uuid)]_<<redis, mem, next_uuid>>

\* an in-memory store that holds a record has just refused two documents
\* with one embedding
C7_Witness ==
    /\ ret.op = "add_documents"
    /\ ret.on = "mem"
    /\ ret.error = "ValueError"
    /\ ret.arg.n_documents = 2
    /\ ret.arg.n_embeddings = 1
    /\ Len(mem.ids) = 1

\* the Redis store has just refused one document with two embeddings
C7_WitnessRedis ==
    /\ ret.op = "add_documents"
    /\ ret.on = "redis"
    /\ ret.error = "ValueError"
    /\ ret.arg.n_documents = 1
    /\ ret.arg.n_embeddings = 2
    /\ redis = EmptyDb

(***************************************************************************)
(* C10: a delete call repeated with the same ids, or given ids that have   *)
(* no record, raises nothing and leaves every record and index as it was;  *)
(* a repeated delete_by_source, delete_collection or clear_all reports 0   *)
(* (RedisVectorStore and InMemoryVectorStore.delete).                      *)
(***************************************************************************)
DeleteOps == {"delete", "delete_by_source", "delete_collection", "clear_all"}

\* what C10 asks of a call on the object on
Idempotent(on) ==
    /\ (ret'.on = on /\ ret'.op \in DeleteOps /\ ret'.repeat)
            => /\ ret'.error = None
               /\ redis' = redis
               /\ mem' = mem
               /\ ret'.op # "delete" => ret'.value = 0
    /\ (ret'.on = on /\ ret'.op = "delete" /\ on = "redis"
               /\ \A i \in 1..Len(ret'.arg) : ~HasRecord(redis, ret'.arg[i]))
            => ret'.error = None /\ redis' = redis
    /\ (ret'.on = on /\ ret'.op = "delete" /\ on = "mem"
               /\ \A i \in 1..Len(ret'.arg) : ret'.arg[i] \notin Range(mem.ids))
            => ret'.error = None /\ mem' = mem

C10_DeleteIdempotent == [][Idempotent("redis") /\ Idempotent("mem")]_state_text

\* C10 on the InMemoryVectorStore alone
C10_DeleteIdempotentInMemory == [][Idempotent("mem")]_state_text

\* a delete of an id that has no record has raised AttributeError
C10_Witness ==
    /\ ret.on = "redis"
    /\ ret.op = "delete"
    /\ ret.arg = <<uuid4(1)>>
    /\ ret.error = AttributeError
    /\ ~HasRecord(redis, uuid4(1))

\* the in-memory store was asked again to delete an id it had deleted
C10_WitnessInMemory ==
    /\ ret.on = "mem"
    /\ ret.op = "delete"
    /\ ret.repeat
    /\ ret.error = None
    /\ ret.arg # <<>>

(***************************************************************************)
(* The rate limiter under one sequential caller.  No call gets past the    *)
(* key of its counter, so no call reaches a round trip to the server.      *)
(***************************************************************************)
InitLim == InitStore /\ InitLimiter(Limiters) /\ InitOther /\ svc = DefaultSvc

NextLimSeq ==
    \/ \E p \in SeqProcs, identifier \in Identifiers : is_allowed(p, identifier)
    \/ \E p \in SeqProcs, identifier \in Identifiers : get_remaining(p, identifier)
    \/ \E p \in SeqProcs, identifier \in Identifiers : reset(p, identifier)

SpecLimSeq == InitLim /\ [][NextLimSeq]_vars

LimiterCall(op) == ret.on = "limiter" /\ ret.op = op

(***************************************************************************)
(* C4: for one sequential caller, within a window the first max_requests   *)
(* is_allowed calls return True and every further call returns False;      *)
(* get_remaining returns max(0, max_requests - allowed calls so far in the *)
(* window), which is max_requests when no counter exists.                  *)
(***************************************************************************)
C4_SequentialLimit ==
    /\ \A id \in Identifiers :
           /\ allowed[id] <= limiter.max_requests
           /\ ~r_exists(redis, CounterKey(id)) => allowed[id] = 0
    /\ LimiterCall("is_allowed") =>
           /\ ret.error = None
           /\ ret.value = FALSE => allowed[ret.arg] = limiter.max_requests
           /\ ret.value = TRUE => allowed[ret.arg] \in 1..limiter.max_requests
    /\ LimiterCall("get_remaining") =>
           /\ ret.error = None
           /\ ret.value = Max(0, limiter.max_requests - allowed[ret.arg])
           /\ ~r_exists(redis, CounterKey(ret.arg)) => ret.value = limiter.max_requests

\* max_requests = 3: the first is_allowed call of a window has raised
\* AttributeError
C4_Witness ==
    /\ limiter.max_requests = 3
    /\ LimiterCall("is_allowed")
    /\ ret.arg = "x"
    /\ ret.error = AttributeError
    /\ allowed["x"] = 0

\* get_remaining has raised AttributeError while no counter exists
C4_WitnessRemaining ==
    /\ LimiterCall("get_remaining")
    /\ ret.error = AttributeError
    /\ ~r_exists(redis, CounterKey(ret.arg))

(***************************************************************************)
(* A splitter is built with every chunk_size and chunk_overlap of the      *)
(* bounds and splits every text of the bounds.                             *)
(***************************************************************************)
NextSplit ==
    \/ \E separators \in SeparatorArgs, chunk_size \in 1..MaxChunk, chunk_overlap \in 0..MaxChunk :
           splitter_init(separators, chunk_size, chunk_overlap)
    \/ ~split_ret.called /\ \E text \in Texts(MaxLen) : split_text(text)

SpecSplit == Init /\ [][NextSplit]_vars

\* a character of the text that is neither whitespace nor the "." of a ". "
is_content(text, i) ==
    /\ char(text, i) \notin Whitespace
    /\ ~(char(text, i) = "." /\ i < Len(text) /\ char(text, i + 1) = " ")

\* the content of the text from position i on, in order
RECURSIVE content(_, _)
content(text, i) ==
    IF i > Len(text) THEN ""
    ELSE (IF is_content(text, i) THEN char(text, i) ELSE "") \o content(text, i + 1)

\* small can be read off big from left to right, skipping characters of big
RECURSIVE is_subsequence(_, _)
is_subsequence(small, big) ==
    IF small = "" THEN TRUE
    ELSE IF big = "" THEN FALSE
    ELSE IF char(small, 1) = char(big, 1)
    THEN is_subsequence(SubSeq(small, 2, Len(small)), SubSeq(big, 2, Len(big)))
    ELSE is_subsequence(small, SubSeq(big, 2, Len(big)))

(***************************************************************************)
(* C5: every chunk split_text returns is at most chunk_size long.  (With   *)
(* the default separators the character-level fallback emits single        *)
(* characters, which no chunk_size >= 1 excludes.)                         *)
(***************************************************************************)
C5_ChunksWithinSize ==
    split_ret.called => \A i \in 1..Len(split_ret.chunks) : Len(split_ret.chunks[i]) <= splitter.chunk_size

\* a text longer than chunk_size has been split in several chunks
C5_Witness ==
    /\ split_ret.called
    /\ Len(split_ret.text) > splitter.chunk_size
    /\ Len(split_ret.chunks) >= 2
    /\ splitter.chunk_overlap > 0

(***************************************************************************)
(* C6: split_text loses no content: the characters of the input that are   *)
(* neither whitespace nor part of a separator occurrence all appear in the *)
(* chunks, and reading the chunks in order presents them in input order.   *)
(***************************************************************************)
C6_NoContentLoss ==
    split_ret.called => is_subsequence(content(split_ret.text, 1), join("", split_ret.chunks))

\* a text with letters on both sides of a ". " went into several chunks that
\* overlap
C6_Witness ==
    /\ split_ret.called
    /\ splitter.chunk_overlap > 0
    /\ Len(split_ret.chunks) >= 2
    /\ contains(split_ret.text, ". ")
    /\ contains(content(split_ret.text, 1), "ab")
    /\ Len(join("", split_ret.chunks)) > Len(split_ret.text)

(***************************************************************************)
(* The retrieval service over a store that is being filled.                 *)
(***************************************************************************)
SvcSettings ==
    Unbuilt([redis_enabled : BOOLEAN, query_cache_ttl : 1..MaxTtl, embedding_cache_ttl : {MaxTtl}])

InitSvc == InitStore /\ InitLimiter({DefaultLimiter}) /\ InitOther /\ svc \in SvcSettings

NextSvc ==
    \/ \E p \in SeqProcs, batch \in ConcBatches :
           Fits(batch, MaxSvcIds) /\ add_documents(p, batch[1], batch[2], None)
           /\ UNCHANGED otherVars
    \/ \E p \in SeqProcs, collection \in CollectionArgs, top_k \in TopKs, use_cache \in BOOLEAN :
           svc_ret.calls < MaxQueries /\ query(p, "q1", collection, top_k, TRUE, use_cache)
    \/ \E p \in SeqProcs, collection \in CollectionArgs, top_k \in TopKs :
           svc_ret.calls < MaxQueries /\ get_relevant_documents(p, "q1", collection, top_k)
    \/ \E p \in SeqProcs : svc_ret.calls < MaxQueries /\ get_cache_stats(p)
    \/ \E p \in SeqProcs : svc_ret.calls < MaxQueries /\ clear_caches(p)
    \/ \E p \in SeqProcs : service_step(p)

SpecSvc == InitSvc /\ [][NextSvc]_vars

\* the call ended with a result, not with an exception
Answered(call) == "error" \notin DOMAIN call.value

\* the steps of query that are calls on a cache object
CacheSteps == {"query_cache.get", "query_cache.set", "embedding_cache.get", "embedding_cache.set"}

\* the call ended with the exception of its last step, a call on a cache
FailedInCache(call) ==
    /\ ~Answered(call)
    /\ call.steps # <<>>
    /\ call.steps[Len(call.steps)] \in CacheSteps

(***************************************************************************)
(* C11: delete(ids), delete_by_source(S), delete_collection(C) and         *)
(* clear_all() remove exactly the targeted records from the record store   *)
(* and from the three indices, leave every other record and its index      *)
(* memberships as they were, and the three bulk operations return the      *)
(* number of records removed.                                              *)
(***************************************************************************)
\* the stored ids a delete operation with this argument is aimed at
Targets(db, op, arg) ==
    CASE op = "delete" -> Range(arg) \cap StoredIds(db)
      [] op = "delete_by_source" -> {doc_id \in StoredIds(db) : RecordOf(db, doc_id).source = arg}
      [] op = "delete_collection" ->
             {doc_id \in StoredIds(db) : RecordOf(db, doc_id).collection = arg}
      [] op = "clear_all" -> StoredIds(db)

IndexKeys(db) == {AllDocsKey} \cup CollectionIndexes(db) \cup SourceIndexes(db)

C11_DeleteFrame ==
    [][(ret'.on = "redis" /\ ret'.op \in DeleteOps)
          => LET targets == Targets(redis, ret'.op, ret'.arg)
             IN /\ ret'.error = None
                /\ StoredIds(redis') = StoredIds(redis) \ targets
                /\ \A doc_id \in StoredIds(redis') :
                       redis'.data[DocKey(doc_id)] = redis.data[DocKey(doc_id)]
                /\ \A key \in IndexKeys(redis) \cup IndexKeys(redis') :
                       r_smembers(redis', key) = r_smembers(redis, key) \ targets
                /\ ret'.op # "delete" => ret'.value = Cardinality(targets)]_state_text

\* delete_collection("A") has raised AttributeError on a store after an
\* add_documents call
C11_Witness ==
    /\ ret.on = "redis"
    /\ ret.op = "delete_collection"
    /\ ret.arg = "A"
    /\ ret.error = AttributeError
    /\ next_uuid > 0

(***************************************************************************)
(* C12: similarity_search returns its results by non-increasing score,     *)
(* min(k, number of candidates that pass the filter) of them, and no       *)
(* candidate left out scores higher than a returned one; with no candidate *)
(* left after filtering it returns an empty sequence and raises nothing    *)
(* (RedisVectorStore and InMemoryVectorStore).                             *)
(***************************************************************************)
\* the candidates a search with this filter chooses from, as [id, score]
Candidates(on, query_embedding, filter) ==
    IF on = "redis"
    THEN {[id |-> doc_id,
           score |-> cosine_similarity(query_embedding, RecordOf(redis, doc_id).embedding)] :
              doc_id \in {d \in StoredIds(redis) : filter_match(RecordOf(redis, d), filter)}}
    ELSE {[id |-> mem.ids[i], score |-> cosine_similarity(query_embedding, mem.embeddings[i])] :
              i \in {j \in 1..Len(mem.ids) : mem_filter_match(mem.documents[j].metadata, filter)}}

\* the [id, score] pairs a search returned
ReturnedPairs(on, value) ==
    {[id |-> IF on = "redis" THEN value[i].record.id ELSE value[i].id, score |-> value[i].score] :
        i \in 1..Len(value)}

SearchOrdered(on) ==
    (ret.op = "similarity_search" /\ ret.on = on)
        => LET candidates == Candidates(ret.on, ret.arg.query_embedding, ret.arg.filter)
               returned == ReturnedPairs(ret.on, ret.value)
           IN /\ ret.error = None
              /\ \A i, j \in 1..Len(ret.value) : i < j => ret.value[i].score >= ret.value[j].score
              /\ Len(ret.value) = Min(ret.arg.k, Cardinality(candidates))
              /\ Cardinality(returned) = Len(ret.value)
              /\ returned \subseteq candidates
              /\ \A out \in candidates \ returned : \A in \in returned : out.score <= in.score

C12_SearchOrdered == SearchOrdered("redis") /\ SearchOrdered("mem")

\* C12 on the InMemoryVectorStore alone
C12_SearchOrderedInMemory == SearchOrdered("mem")

\* a search of the Redis store with no filter has raised AttributeError
C12_Witness ==
    /\ ret.op = "similarity_search"
    /\ ret.on = "redis"
    /\ ret.arg.k = 1
    /\ ret.arg.filter = NoFilter
    /\ ret.error = AttributeError

\* an in-memory search for one result chose the better of two candidates
C12_WitnessInMemory ==
    /\ ret.op = "similarity_search"
    /\ ret.on = "mem"
    /\ ret.error = None
    /\ ret.arg.k = 1
    /\ Len(ret.value) = 1
    /\ \E out \in Candidates("mem", ret.arg.query_embedding, ret.arg.filter) :
           out.score < ret.value[1].score

\* a search whose filter no stored record passes returned nothing
C12_WitnessEmpty ==
    /\ ret.op = "similarity_search"
    /\ ret.on = "mem"
    /\ ret.value = <<>>
    /\ ret.error = None
    /\ mem.ids # <<>>

(***************************************************************************)
(* Round trips: a sequential caller adds one document with an embedding    *)
(* and searches for one result right after.  The embeddings include the    *)
(* zero vector and vectors shared by several documents.                    *)
(***************************************************************************)
TripEmbs == {<<1, 0>>, <<0, 1>>, <<3, 4>>, <<0, 0>>}

JustAdded == ret.op = "add_documents"

NextTrip ==
    \/ \E p \in SeqProcs, doc \in Docs, emb \in TripEmbs :
           UsesRedis /\ Fits(<<(<<doc>>), (<<emb>>)>>, MaxIds)
           /\ add_documents(p, <<doc>>, <<emb>>, None) /\ UNCHANGED otherVars
    \/ \E p \in SeqProcs, query_embedding \in TripEmbs :
           JustAdded /\ UsesRedis
           /\ similarity_search(p, query_embedding, 1, NoFilter) /\ UNCHANGED otherVars
    \/ \E doc \in Docs, emb \in TripEmbs :
           UsesMem /\ Fits(<<(<<doc>>), (<<emb>>)>>, MaxIds)
           /\ mem_add_documents(<<doc>>, <<emb>>) /\ UNCHANGED otherVars
    \/ \E query_embedding \in TripEmbs :
           JustAdded /\ UsesMem
           /\ mem_similarity_search(query_embedding, 1, NoFilter) /\ UNCHANGED otherVars

SpecTrip == Init /\ [][NextTrip]_vars

\* the step is a search for one result with the embedding the call before added
IsRoundTrip(before, after) ==
    /\ before.op = "add_documents"
    /\ before.error = None
    /\ before.arg.n_documents = 1
    /\ after.op = "similarity_search"
    /\ after.on = before.on
    /\ after.arg.k = 1
    /\ after.arg.filter = NoFilter
    /\ after.arg.query_embedding = before.arg.embeddings[1]

\* the search returned the chunk just added, with score 1.0
ReturnsAdded(before, after) ==
    /\ after.error = None
    /\ Len(after.value) = 1
    /\ after.value[1].doc = before.arg.documents[1]
    /\ after.value[1].score = SCORE_UNIT

\* the embeddings the store holds, per id
StoredEmbeddings(on) ==
    IF on = "redis"
    THEN {[id |-> doc_id, embedding |-> RecordOf(redis, doc_id).embedding] :
             doc_id \in StoredIds(redis)}
    ELSE {[id |-> mem.ids[i], embedding |-> mem.embeddings[i]] : i \in 1..Len(mem.ids)}

(***************************************************************************)
(* C13: after add_documents([chunk], [embedding]),                         *)
(* similarity_search(embedding, k=1) returns exactly that chunk, content   *)
(* and metadata, with score 1.0.                                           *)
(***************************************************************************)
\* the step is the return of an add_documents call with one document and
\* one embedding
AddsOne(after) ==
    /\ after.op = "add_documents"
    /\ after.arg.n_documents = 1
    /\ after.arg.n_embeddings = 1

C13_RoundTrip ==
    [][/\ AddsOne(ret') => ret'.error = None
       /\ IsRoundTrip(ret, ret') => ReturnsAdded(ret, ret')]_<<ret.op, next_uuid>>

\* the round trip on the InMemoryVectorStore, for an embedding that is not
\* the zero vector and that no other stored record shares
C13_RoundTripNonZeroUnique ==
    [][(/\ IsRoundTrip(ret, ret')
        /\ norm(ret.arg.embeddings[1]) # 0
        /\ \A other \in StoredEmbeddings(ret.on) :
               other.id # ret.value[1]
                   => cosine_similarity(ret.arg.embeddings[1], other.embedding) < SCORE_UNIT)
          => ReturnsAdded(ret, ret')]_<<ret.op>>

\* add_documents of one chunk with <<3, 4>> has raised AttributeError on the
\* RedisVectorStore
C13_Witness ==
    /\ AddsOne(ret)
    /\ ret.on = "redis"
    /\ ret.arg.embeddings = << <<3, 4>> >>
    /\ ret.error = AttributeError
    /\ StoredIds(redis) = {}

\* a second record, added to an in-memory store that holds another
\* embedding, came back from the search with score 1.0
C13_WitnessInMemory ==
    /\ ret.op = "similarity_search"
    /\ ret.on = "mem"
    /\ ret.arg.query_embedding = <<3, 4>>
    /\ Len(ret.value) = 1
    /\ Len(mem.ids) = 2
    /\ ret.value[1].id = mem.ids[2]
    /\ ret.value[1].score = SCORE_UNIT
    /\ mem.embeddings[1] # <<3, 4>>

(***************************************************************************)
(* C14: when an index holds an id whose record is missing, the reads       *)
(* similarity_search and list_sources complete without error and leave     *)
(* that id out: every search result has a stored record, and list_sources  *)
(* counts, per source, exactly the indexed ids that have a record.         *)
(***************************************************************************)
\* the index a read with this collection argument goes through
ReadIndex(collection) ==
    IF collection \in {None, ""} THEN AllDocsKey ELSE CollectionKey(collection)

C14_ReadsSkipDangling ==
    /\ (ret.on = "redis" /\ ret.op = "similarity_search")
           => /\ ret.error = None
              /\ \A i \in 1..Len(ret.value) :
                     /\ HasRecord(redis, ret.value[i].record.id)
                     /\ ret.value[i].record = RecordOf(redis, ret.value[i].record.id)
    /\ (ret.on = "redis" /\ ret.op = "list_sources")
           => LET found == {doc_id \in r_smembers(redis, ReadIndex(ret.arg)) :
                               HasRecord(redis, doc_id)}
              IN /\ ret.error = None
                 /\ \A i, j \in 1..Len(ret.value) :
                        ret.value[i].source = ret.value[j].source => i = j
                 /\ {ret.value[i].source : i \in 1..Len(ret.value)}
                        = {RecordOf(redis, doc_id).source : doc_id \in found}
                 /\ \A i \in 1..Len(ret.value) :
                        ret.value[i].count
                            = Cardinality({doc_id \in found :
                                  RecordOf(redis, doc_id).source = ret.value[i].source})

\* list_sources of collection A has raised AttributeError
C14_Witness ==
    /\ ret.on = "redis"
    /\ ret.op = "list_sources"
    /\ ret.arg = "A"
    /\ ret.error = AttributeError

(***************************************************************************)
(* A sequential caller that adds documents with embeddings of two and of   *)
(* three dimensions, and searches.                                         *)
(***************************************************************************)
DimEmbs == {<<1, 0>>, <<0, 1>>, <<1, 0, 0>>}

NextDim ==
    \/ \E p \in SeqProcs, doc \in Docs, emb \in DimEmbs :
           UsesRedis /\ Fits(<<(<<doc>>), (<<emb>>)>>, MaxIds)
           /\ add_documents(p, <<doc>>, <<emb>>, None) /\ UNCHANGED otherVars
    \/ \E p \in SeqProcs, query_embedding \in DimEmbs, filter \in Filters :
           UsesRedis /\ similarity_search(p, query_embedding, 1, filter) /\ UNCHANGED otherVars
    \/ \E doc \in Docs, emb \in DimEmbs :
           UsesMem /\ Fits(<<(<<doc>>), (<<emb>>)>>, MaxIds)
           /\ mem_add_documents(<<doc>>, <<emb>>) /\ UNCHANGED otherVars
    \/ \E query_embedding \in DimEmbs, filter \in Filters :
           UsesMem /\ mem_similarity_search(query_embedding, 1, filter) /\ UNCHANGED otherVars

SpecDim == Init /\ [][NextDim]_vars

(***************************************************************************)
(* C15: after any sequence of add_documents calls, all embedding vectors   *)
(* held in one store have the same dimensionality.                         *)
(***************************************************************************)
C15_OneDimensionality ==
    \A on \in {"redis", "mem"} :
        \A a, b \in StoredEmbeddings(on) : Len(a.embedding) = Len(b.embedding)

\* a second add_documents call has returned and the in-memory store holds
\* two records
C15_Witness ==
    /\ ret.op = "add_documents"
    /\ ret.on = "mem"
    /\ ret.error = None
    /\ Cardinality(StoredEmbeddings("mem")) = 2

\* a search has raised on a store that holds two dimensionalities
C15_SearchRaised ==
    /\ ret.op = "similarity_search"
    /\ ret.on = "mem"
    /\ ret.error = "ValueError"

(***************************************************************************)
(* The embedding caches of the service and of other models, written,       *)
(* read, invalidated and cleared.                                          *)
(***************************************************************************)
EmbSettings ==
    Unbuilt([redis_enabled : {TRUE}, query_cache_ttl : {MaxTtl}, embedding_cache_ttl : 1..MaxTtl])

InitEmb == InitStore /\ InitLimiter({DefaultLimiter}) /\ InitOther /\ svc \in EmbSettings

NextEmb ==
    \/ \E text \in Questions, embedding \in CacheEmbs, ttl \in Ttls :
           emb_cache_set(text, embedding, ttl)
    \/ \E text \in Questions : emb_cache_get(text)
    \/ \E text \in Questions : emb_cache_invalidate(text)
    \/ \E p \in SeqProcs : emb_cache_clear_all(p)
    \/ \E model_name \in CacheModels, text \in Questions, embedding \in CacheEmbs :
           emb_set_on(model_name, text, embedding)
    \/ \E p \in SeqProcs, model_name \in CacheModels : emb_clear_all_on(p, model_name)
    \/ \E key \in ManagerKeys, value \in ManagerValues, ttl \in {0, MaxManagerTtl} :
           manager_set(key, value, ttl, "")
    \/ \E key \in ManagerKeys, ttl \in 0..MaxManagerTtl - 1 : manager_expire(key, ttl, "")
    \/ \E key \in ManagerKeys : manager_delete(key, "")
    \/ \E key \in IncrKeys : BelowMaxCount(key) /\ manager_incr(key, "")
    \/ \E p \in SeqProcs, prefix \in FlushPrefixes : manager_flush_prefix(p, prefix)
    \/ \E p \in SeqProcs : flush_prefix_delete(p)

SpecEmb == InitEmb /\ [][NextEmb]_vars

\* the entry a get is expected to find: written, and its lifetime not over
Alive(entry) == entry \in DOMAIN cache_log /\ cache_log[entry].left > 0

(***************************************************************************)
(* C16: an embedding written with set(text, v, ttl=t) is returned by       *)
(* get(text) until t seconds have passed and is a miss once they have,     *)
(* unless it was set again; a set without ttl lives for the configured TTL *)
(* of the cache.                                                           *)
(***************************************************************************)
C16_EmbeddingTtl ==
    (cache_ret.on = "emb" /\ cache_ret.op \in {"set", "get"})
        => /\ cache_ret.error = None
           /\ cache_ret.op = "get" =>
                  IF Alive(cache_ret.arg)
                  THEN cache_ret.hit /\ cache_ret.value = cache_log[cache_ret.arg].value
                  ELSE ~cache_ret.hit

\* set(text, v, ttl=1) has raised AttributeError and written nothing
C16_Witness ==
    /\ cache_ret.on = "emb"
    /\ cache_ret.op = "set"
    /\ cache_ret.error = AttributeError
    /\ cache_ret.arg = [text |-> "q1", ttl |-> Ttl(1)]
    /\ redis = EmptyDb

\* a get has raised AttributeError
C16_WitnessGet ==
    /\ cache_ret.on = "emb"
    /\ cache_ret.op = "get"
    /\ cache_ret.error = AttributeError

(***************************************************************************)
(* The service while the server comes and goes for the cache connection.   *)
(***************************************************************************)
OutageSettings ==
    Unbuilt([redis_enabled : {TRUE}, query_cache_ttl : {MaxTtl}, embedding_cache_ttl : {MaxTtl}])

InitOutage == InitStore /\ InitLimiter({DefaultLimiter}) /\ InitOther /\ svc \in OutageSettings

NextOutage ==
    \/ \E p \in SeqProcs, batch \in ConcBatches :
           Fits(batch, MaxSvcIds) /\ add_documents(p, batch[1], batch[2], None)
           /\ UNCHANGED otherVars
    \/ \E p \in SeqProcs, question \in Questions, top_k \in TopKs, use_cache \in BOOLEAN :
           svc_ret.calls < MaxQueries /\ query(p, question, None, top_k, TRUE, use_cache)
    \/ \E p \in SeqProcs, question \in Questions, top_k \in TopKs :
           svc_ret.calls < MaxQueries /\ get_relevant_documents(p, question, None, top_k)
    \/ \E p \in SeqProcs : svc_ret.calls < MaxQueries /\ get_cache_stats(p)
    \/ \E p \in SeqProcs : svc_ret.calls < MaxQueries /\ clear_caches(p)
    \/ \E p \in SeqProcs : service_step(p)
    \/ backend_fails
    \/ backend_recovers

SpecOutage == InitOutage /\ [][NextOutage]_vars

(***************************************************************************)
(* C18: whenever the server is unavailable to the caches, also after the   *)
(* cache objects were built, RetrievalService.query returns a result       *)
(* (computed directly) and does not fail because of a cache.               *)
(***************************************************************************)
C18_QueryFallsBack ==
    (svc_ret.op = "query" /\ ~svc.backend_up) => ~FailedInCache(svc_ret)

\* the query cache was built, the server stopped answering, and the next
\* query that asked for the cache ended with the exception of its get
C18_Witness ==
    /\ svc_ret.op = "query"
    /\ svc_ret.arg.use_cache
    /\ ~svc.backend_up
    /\ svc._query_cache
    /\ svc_ret.value = Failure(AttributeError)
    /\ svc_ret.steps = <<"query_cache.get">>

\* with the server down before any cache object was built, a query embedded
\* the question itself and ended with the exception of the store's search
C18_WitnessUnbuilt ==
    /\ svc_ret.op = "query"
    /\ svc_ret.arg.use_cache
    /\ ~svc.backend_up
    /\ ~svc._query_cache
    /\ ~svc._embedding_cache
    /\ svc_ret.value = Failure(AttributeError)
    /\ svc_ret.steps = <<"embed", "similarity_search">>

\* the server did not answer when query read its cache properties at lines
\* 205 and 156 and answered again at line 163: the question was embedded, the
\* embedding cache was built and the call ended with the exception of its set
C18_WitnessRecovered ==
    /\ svc_ret.op = "query"
    /\ svc_ret.arg.use_cache
    /\ ~svc._query_cache
    /\ svc._embedding_cache
    /\ svc_ret.value = Failure(AttributeError)
    /\ svc_ret.steps = <<"embed", "embedding_cache.set">>

(***************************************************************************)
(* The two stores driven by one caller with the same calls: every call is  *)
(* made on the RedisVectorStore (without a collection argument, which the  *)
(* in-memory store does not have) and then, with the same arguments, on    *)
(* the InMemoryVectorStore.  Each add brings at most one document, so the  *)
(* in-memory store's id of a document is the one uuid4 hands out next      *)
(* after the Redis store's.                                                *)
(***************************************************************************)
MaxPairIds == 4

PairFilters == {NoFilter, [collection |-> "A"], [collection |-> "default"], [page |-> "1"]}
PairBatches == {batch \in Batches(Docs) : Len(batch[1]) <= 1}

\* both stores have seen the same calls
InStep == ret.on # "redis" /\ \A p \in Procs : proc[p] = Idle

\* the Redis store has returned from a call the in-memory store has not seen
Paired(op) == ret.on = "redis" /\ ret.op = op /\ \A p \in Procs : proc[p] = Idle

NextPair ==
    \/ \E p \in SeqProcs, batch \in PairBatches :
           /\ InStep
           /\ Fits(batch, MaxPairIds - 1)
           /\ add_documents(p, batch[1], batch[2], None)
           /\ UNCHANGED otherVars
    \/ /\ Paired("add_documents")
       /\ mem_add_documents(ret.arg.documents, ret.arg.embeddings)
       /\ UNCHANGED otherVars
    \/ \E p \in SeqProcs, ids \in IdLists(MaxPairIds - 1, 1) :
           InStep /\ delete(p, ids) /\ UNCHANGED otherVars
    \/ \E p \in SeqProcs : delete_get(p) /\ UNCHANGED otherVars
    \/ \E p \in SeqProcs : delete_execute(p) /\ UNCHANGED otherVars
    \/ \E n \in 0..MaxPairIds - 1 :
           /\ Paired("delete")
           /\ ret.arg \in {<<>>, <<uuid4(n)>>}
           /\ mem_delete(IF ret.arg = <<>> THEN <<>> ELSE <<uuid4(n + 1)>>)
           /\ UNCHANGED otherVars
    \/ \E p \in SeqProcs, query_embedding \in QueryEmbs, k \in TopKs, filter \in PairFilters :
           InStep /\ similarity_search(p, query_embedding, k, filter) /\ UNCHANGED otherVars
    \/ /\ Paired("similarity_search")
       /\ mem_similarity_search(ret.arg.query_embedding, ret.arg.k, ret.arg.filter)
       /\ UNCHANGED otherVars

SpecPair == Init /\ [][NextPair]_vars

\* the documents a result holds at a score
DocsAt(value, score) == {value[i].doc : i \in {j \in 1..Len(value) : value[j].score = score}}

\* two results of a search for k: the same scores in the same order and,
\* at every score that is not cut off by k, the same documents
SameRanking(x, y, k) ==
    /\ Len(x) = Len(y)
    /\ \A i \in 1..Len(x) :
           /\ x[i].score = y[i].score
           /\ (Len(x) < k \/ x[i].score > x[Len(x)].score)
                  => DocsAt(x, x[i].score) = DocsAt(y, x[i].score)

SameOutcome(first, second) ==
    /\ first.error = second.error
    /\ first.error = None => SameRanking(first.value, second.value, first.arg.k)

(***************************************************************************)
(* C19: after the same add_documents, delete and similarity_search calls,  *)
(* a similarity_search with the same embedding, k and filter returns from  *)
(* the InMemoryVectorStore what it returned from the RedisVectorStore: the *)
(* same chunks with the same scores in the same order, ties in score aside.*)
(***************************************************************************)
C19_StoresAgree ==
    [][(Paired("similarity_search") /\ ret'.on = "mem") => SameOutcome(ret, ret')]_<<ret.on>>

\* the in-memory store returned a document for a search the Redis store
\* had answered with AttributeError
C19_Witness ==
    /\ ret.on = "mem"
    /\ ret.op = "similarity_search"
    /\ ret.error = None
    /\ Len(ret.value) = 1
    /\ ret.arg.filter = NoFilter
    /\ StoredIds(redis) = {}

(***************************************************************************)
(* C20: a splitter constructed with chunk_overlap >= chunk_size is refused *)
(* with an error and there is no splitter; with chunk_overlap < chunk_size *)
(* the construction succeeds; split_text is only ever called on a          *)
(* constructed splitter and returns chunks, never an error.                *)
(***************************************************************************)
C20_ConstructorValidates ==
    /\ splitter # NoSplitter =>
           IF splitter.chunk_overlap >= splitter.chunk_size
           THEN ~splitter.built /\ splitter.error = "ValueError"
           ELSE splitter.built /\ splitter.error = None
    /\ split_ret.called =>
           /\ splitter.built
           /\ splitter.error = None
           /\ \A i \in 1..Len(split_ret.chunks) : Len(split_ret.chunks[i]) > 0

\* the same, for the constructions that pass a list of separators
C20_ConstructorValidatesWithSeparators ==
    /\ (splitter # NoSplitter /\ splitter.error # AttributeError) =>
           IF splitter.chunk_overlap >= splitter.chunk_size
           THEN ~splitter.built /\ splitter.error = "ValueError"
           ELSE splitter.built /\ splitter.error = None
    /\ split_ret.called =>
           /\ splitter.built
           /\ splitter.error = None
           /\ \A i \in 1..Len(split_ret.chunks) : Len(split_ret.chunks[i]) > 0

\* a construction without separators, with an overlap below the chunk size,
\* raised AttributeError and left no splitter
C20_Witness ==
    /\ ~splitter.built
    /\ splitter.error = AttributeError
    /\ splitter.chunk_size = 4
    /\ splitter.chunk_overlap = 0

\* the constructor refused an overlap equal to the chunk size
C20_WitnessRefused ==
    /\ splitter.error = "ValueError"
    /\ splitter.chunk_overlap = splitter.chunk_size

(***************************************************************************)
(* split_documents on lists of up to MaxDocs documents, one of which is    *)
(* empty and one of which already carries a chunk_index.                   *)
(***************************************************************************)
MaxDocs == 2

SplitDocs == {
    Document("", [source |-> "s1"]),
    Document("ab", [source |-> "s1"]),
    Document("ab ab", [source |-> "s2", collection |-> "A"]),
    Document("a. b c", [source |-> "s2", chunk_index |-> 7]) }

NextDocs ==
    \/ \E separators \in SeparatorArgs, chunk_size \in 1..MaxChunk, chunk_overlap \in 0..MaxChunk :
           splitter_init(separators, chunk_size, chunk_overlap)
    \/ \E documents \in SeqsUpTo(SplitDocs, MaxDocs) : split_documents(documents)

SpecDocs == Init /\ [][NextDocs]_vars

\* the chunks split_text gives for the j-th input document
ChunksOf(j) ==
    _split_text(splitter, split_ret.documents[j].page_content, splitter.separators)

\* how many output documents precede those of the j-th input document
RECURSIVE Before(_)
Before(j) == IF j = 1 THEN 0 ELSE Before(j - 1) + Len(ChunksOf(j - 1))

(***************************************************************************)
(* C21: the output of split_documents carries, for each input document in  *)
(* input order, its n chunks consecutively with chunk_index 0..n-1 in      *)
(* order of production and chunk_count n; every other metadata key has the *)
(* input document's value, and the input documents are as they were.       *)
(***************************************************************************)
C21_SplitDocuments ==
    (split_ret.called /\ "result" \in DOMAIN split_ret) =>
        LET documents == split_ret.documents
            result == split_ret.result
        IN /\ Len(result) = Before(Len(documents) + 1)
           /\ \A j \in 1..Len(documents) : \A i \in 1..Len(ChunksOf(j)) :
                  LET made == result[Before(j) + i]
                  IN /\ made.page_content = ChunksOf(j)[i]
                     /\ made.metadata.chunk_index = i - 1
                     /\ made.metadata.chunk_count = Len(ChunksOf(j))
                     /\ DOMAIN made.metadata =
                            DOMAIN documents[j].metadata \cup {"chunk_index", "chunk_count"}
                     /\ \A key \in DOMAIN documents[j].metadata \ {"chunk_index", "chunk_count"} :
                            made.metadata[key] = documents[j].metadata[key]
           /\ split_ret.after = documents

\* two documents were split, the first in several chunks, the second
\* already carrying a chunk_index of its own
C21_Witness ==
    /\ split_ret.called
    /\ "result" \in DOMAIN split_ret
    /\ Len(split_ret.documents) = 2
    /\ Len(ChunksOf(1)) >= 2
    /\ Len(ChunksOf(2)) >= 2
    /\ "chunk_index" \in DOMAIN split_ret.documents[2].metadata
    /\ "collection" \in DOMAIN split_ret.documents[1].metadata

\* the text holds none of the separators above the character level
NoSeparatorIn(text) ==
    \A i \in 1..Len(DEFAULT_SEPARATORS) :
        DEFAULT_SEPARATORS[i] # "" => ~contains(text, DEFAULT_SEPARATORS[i])

(***************************************************************************)
(* C22: split_text is total.  A splitter built with chunk_size >           *)
(* chunk_overlap >= 0 returns a list of chunks for every text, the empty   *)
(* text gives no chunk, and a text that holds none of the separators is    *)
(* split at the character level: the separator picked is "", and the       *)
(* chunks are runs of the text's characters no longer than chunk_size that *)
(* together hold every character.                                          *)
(***************************************************************************)
C22_SplitTextTotal ==
    /\ (splitter.built /\ ~split_ret.called) =>
           \A text \in Texts(MaxLen) :
               Len(_split_text(splitter, text, splitter.separators)) \in Nat
    /\ (split_ret.called /\ "text" \in DOMAIN split_ret) =>
           /\ split_ret.text = "" => split_ret.chunks = <<>>
           /\ NoSeparatorIn(split_ret.text) =>
                  /\ pick_separator(split_ret.text, splitter.separators).separator = ""
                  /\ \A i \in 1..Len(split_ret.chunks) :
                         /\ contains(split_ret.text, split_ret.chunks[i])
                         /\ Len(split_ret.chunks[i]) <= splitter.chunk_size
                  /\ is_subsequence(split_ret.text, join("", split_ret.chunks))

\* a text without any separator, longer than chunk_size, was split into
\* chunks that overlap
C22_Witness ==
    /\ split_ret.called
    /\ "text" \in DOMAIN split_ret
    /\ NoSeparatorIn(split_ret.text)
    /\ Len(split_ret.text) > splitter.chunk_size
    /\ splitter.chunk_overlap > 0
    /\ Len(split_ret.chunks) >= 2

\* the empty text was split
C22_WitnessEmpty ==
    /\ split_ret.called
    /\ "text" \in DOMAIN split_ret
    /\ split_ret.text = ""

(***************************************************************************)
(* add_documents with and without a collection argument, the empty string  *)
(* among the arguments.                                                    *)
(***************************************************************************)
AddCollectionArgs == {None, "", "A", "B"}

NextAdd ==
    \/ \E p \in SeqProcs, batch \in Batches(Docs), collection \in AddCollectionArgs :
           Fits(batch, MaxIds) /\ add_documents(p, batch[1], batch[2], collection)
           /\ UNCHANGED otherVars
    \/ \E p \in SeqProcs : clear_all(p) /\ UNCHANGED otherVars

SpecAdd == Init /\ [][NextAdd]_vars

\* the collection of a record: the argument unless it is one of absent,
\* else the chunk's metadata, else "default"
ResolvedCollection(collection, doc, absent) ==
    IF collection \notin absent THEN collection
    ELSE dict_get(doc.metadata, "collection", "default")

\* what an add_documents that returned ids has done with db to give after
AddedAs(db, after, call, absent) ==
    /\ Len(call.value) = Len(call.arg.documents)
    /\ \A i, j \in 1..Len(call.value) : call.value[i] = call.value[j] => i = j
    /\ \A i \in 1..Len(call.value) :
           LET doc_id == call.value[i]
               doc == call.arg.documents[i]
               coll == ResolvedCollection(call.arg.collection, doc, absent)
               source == dict_get(doc.metadata, "source", "unknown")
           IN /\ doc_id \notin StoredIds(db)
              /\ \A key \in IndexKeys(db) : doc_id \notin r_smembers(db, key)
              /\ HasRecord(after, doc_id)
              /\ RecordOf(after, doc_id).collection = coll
              /\ RecordOf(after, doc_id).source = source
              /\ RecordOf(after, doc_id).content = doc.page_content
              /\ RecordOf(after, doc_id).embedding = call.arg.embeddings[i]
              /\ doc_id \in r_smembers(after, AllDocsKey)
              /\ \A key \in CollectionIndexes(after) :
                     doc_id \in r_smembers(after, key) <=> key = CollectionKey(coll)
              /\ \A key \in SourceIndexes(after) :
                     doc_id \in r_smembers(after, key) <=> key = SourceKey(source)
              /\ CollectionKey(coll) \in CollectionIndexes(after)
              /\ SourceKey(source) \in SourceIndexes(after)

\* the call is an add_documents of the Redis store with as many embeddings
\* as documents
AddCalled(call) ==
    /\ call.on = "redis"
    /\ call.op = "add_documents"
    /\ call.arg.n_documents = call.arg.n_embeddings

(***************************************************************************)
(* C23: add_documents stores each record under the collection argument if  *)
(* one is given, else metadata["collection"], else "default", and under    *)
(* metadata["source"], else "unknown"; the id is in exactly the indices of *)
(* that collection and that source, and the ids returned are fresh,        *)
(* distinct and in input order.                                            *)
(***************************************************************************)
C23_AddResolves ==
    [][AddCalled(ret') => (ret'.error = None /\ AddedAs(redis, redis', ret', {None}))]_<<next_uuid>>

\* an add of one chunk whose metadata names collection A, with the
\* collection argument "B", has raised AttributeError and stored nothing
C23_Witness ==
    /\ AddCalled(ret)
    /\ ret.error = AttributeError
    /\ ret.arg.collection = "B"
    /\ ret.arg.n_documents = 1
    /\ dict_get(ret.arg.documents[1].metadata, "collection", None) = "A"
    /\ redis = EmptyDb

(***************************************************************************)
(* Searches filtered on metadata keys other than the collection, on either *)
(* store.  One filter asks for the value None.                             *)
(***************************************************************************)
MetaDocs == {
    Document("alpha", [source |-> "s1", page |-> "1"]),
    Document("beta", [source |-> "s1", page |-> "2"]),
    Document("gamma", [page |-> "1"]),
    Document("alpha", [source |-> "s2"]) }

MetaFilters == {
    [page |-> "1"],
    [source |-> "s1"],
    [source |-> "s1", page |-> "1"],
    [page |-> None] }

NextMeta ==
    \/ \E p \in SeqProcs, doc \in MetaDocs :
           UsesRedis /\ Fits(<<(<<doc>>), (<<embedding_of(doc)>>)>>, MaxIds)
           /\ add_documents(p, <<doc>>, <<embedding_of(doc)>>, None) /\ UNCHANGED otherVars
    \/ \E p \in SeqProcs, query_embedding \in QueryEmbs, k \in TopKs, filter \in MetaFilters :
           UsesRedis /\ similarity_search(p, query_embedding, k, filter) /\ UNCHANGED otherVars
    \/ \E doc \in MetaDocs :
           UsesMem /\ Fits(<<(<<doc>>), (<<embedding_of(doc)>>)>>, MaxIds)
           /\ mem_add_documents(<<doc>>, <<embedding_of(doc)>>) /\ UNCHANGED otherVars
    \/ \E query_embedding \in QueryEmbs, k \in TopKs, filter \in MetaFilters :
           UsesMem /\ mem_similarity_search(query_embedding, k, filter) /\ UNCHANGED otherVars

SpecMeta == Init /\ [][NextMeta]_vars

\* the metadata holds exactly the filter's value under every filter key
HoldsAll(metadata, filter) ==
    \A key \in DOMAIN filter : key \in DOMAIN metadata /\ metadata[key] = filter[key]

\* the ids of the stored chunks of a store that satisfy the filter
Satisfying(on, filter) ==
    IF on = "redis"
    THEN {doc_id \in StoredIds(redis) : HoldsAll(RecordOf(redis, doc_id).metadata, filter)}
    ELSE {mem.ids[i] : i \in {j \in 1..Len(mem.ids) : HoldsAll(mem.documents[j].metadata, filter)}}

\* a search of one store, filtered on keys other than the collection
MetaSearch(on) ==
    /\ ret.on = on
    /\ ret.op = "similarity_search"
    /\ "collection" \notin DOMAIN ret.arg.filter
    /\ DOMAIN ret.arg.filter # {}

\* the search returned, and what it returned is what the filter asks for:
\* only chunks that hold the filter's value under every key, and
\* min(k, satisfying chunks) of them
FilteredAsAsked ==
    /\ ret.error = None
    /\ \A i \in 1..Len(ret.value) : HoldsAll(ret.value[i].doc.metadata, ret.arg.filter)
    /\ Len(ret.value) = Min(ret.arg.k, Cardinality(Satisfying(ret.on, ret.arg.filter)))

(***************************************************************************)
(* C24: for a filter with keys other than collection, similarity_search of *)
(* either store returns a result, and the result holds only chunks whose   *)
(* metadata holds exactly the filter's value under every filter key,       *)
(* leaves out no stored chunk that satisfies the filter (up to k), and     *)
(* holds no chunk whose metadata lacks a filter key.                       *)
(***************************************************************************)
C24_MetadataFilter == (MetaSearch("redis") \/ MetaSearch("mem")) => FilteredAsAsked

\* a search of the Redis store filtered on page "1", with k = 1, has raised
\* AttributeError in _get_all_documents and has returned no chunk
C24_Witness ==
    /\ MetaSearch("redis")
    /\ ret.arg.filter = [page |-> "1"]
    /\ ret.arg.k = 1
    /\ ret.error = AttributeError

\* the same sentence of InMemoryVectorStore alone
C24_MetadataFilterInMemory == MetaSearch("mem") => FilteredAsAsked

\* an in-memory search on two keys returned one of two stored chunks
C24_WitnessInMemory ==
    /\ MetaSearch("mem")
    /\ ret.error = None
    /\ ret.arg.filter = [source |-> "s1", page |-> "1"]
    /\ Len(ret.value) = 1
    /\ Len(mem.ids) = 2

\* an in-memory search that asks for page None found nothing in a store
\* that holds a chunk without a page
C24_WitnessLacksKey ==
    /\ MetaSearch("mem")
    /\ ret.error = None
    /\ ret.arg.filter = [page |-> None]
    /\ ret.value = <<>>
    /\ \E i \in 1..Len(mem.documents) : "page" \notin DOMAIN mem.documents[i].metadata

(***************************************************************************)
(* A store that is filled and emptied while its collections are listed and *)
(* counted.                                                                *)
(***************************************************************************)
CountArgs == {None, "", "A", "B", "default"}

NextCount ==
    \/ \E p \in SeqProcs, batch \in Batches(Docs), collection \in {None, "A"} :
           Fits(batch, MaxIds) /\ add_documents(p, batch[1], batch[2], collection)
           /\ UNCHANGED otherVars
    \/ \E p \in SeqProcs, ids \in IdLists(MaxIds, 1) : delete(p, ids) /\ UNCHANGED otherVars
    \/ \E p \in SeqProcs : delete_get(p) /\ UNCHANGED otherVars
    \/ \E p \in SeqProcs : delete_execute(p) /\ UNCHANGED otherVars
    \/ \E p \in SeqProcs, collection \in Collections :
           delete_collection(p, collection) /\ UNCHANGED otherVars
    \/ \E p \in SeqProcs : list_collections(p) /\ UNCHANGED otherVars
    \/ \E p \in SeqProcs, collection \in CountArgs :
           get_document_count(p, collection) /\ UNCHANGED otherVars
    \/ \E p \in SeqProcs, collection \in CollectionArgs :
           list_sources(p, collection) /\ UNCHANGED otherVars

SpecCount == Init /\ [][NextCount]_vars

\* the ids of the stored records of a collection
RecordsOf(db, collection) ==
    {doc_id \in StoredIds(db) : RecordOf(db, doc_id).collection = collection}

ListsHolding ==
    (ret.on = "redis" /\ ret.op = "list_collections") =>
        /\ ret.error = None
        /\ Range(ret.value) = {RecordOf(redis, doc_id).collection : doc_id \in StoredIds(redis)}
        /\ \A i, j \in 1..Len(ret.value) : ret.value[i] = ret.value[j] => i = j

CountIs(absent) ==
    (ret.on = "redis" /\ ret.op = "get_document_count") =>
        /\ ret.error = None
        /\ ret.value = IF ret.arg \in absent THEN Cardinality(StoredIds(redis))
                       ELSE Cardinality(RecordsOf(redis, ret.arg))

(***************************************************************************)
(* C25: after completed adds and deletes, list_collections returns         *)
(* exactly the collections that hold at least one record,                  *)
(* get_document_count(C) is the number of stored records of collection C   *)
(* for every string C, and get_document_count() is the number of stored    *)
(* records.                                                                *)
(***************************************************************************)
C25_ListAndCount == ListsHolding /\ CountIs({None})

\* get_document_count("A") has raised AttributeError after an add_documents
\* call
C25_Witness ==
    /\ ret.on = "redis"
    /\ ret.op = "get_document_count"
    /\ ret.arg = "A"
    /\ ret.error = AttributeError
    /\ next_uuid > 0

\* list_collections has raised AttributeError
C25_WitnessList ==
    /\ ret.on = "redis"
    /\ ret.op = "list_collections"
    /\ ret.error = AttributeError

\* the counter of an identifier as the server holds it: value and TTL, 0
\* standing for no TTL
CounterOf(db, id) ==
    [value |-> r_get(db, CounterKey(id)),
     ttl |-> IF CounterKey(id) \in DOMAIN db.ttl THEN db.ttl[CounterKey(id)] ELSE 0]

JustReset == ret.on = "limiter" /\ ret.op = "reset"

(***************************************************************************)
(* C26: reset(id) deletes the counter of id outright and leaves the        *)
(* counters of the other identifiers as they are; a get_remaining(id) that *)
(* follows returns max_requests, and the is_allowed(id) that follows reads *)
(* no counter, returns True and writes the counter "1" with a TTL of       *)
(* window_seconds.                                                         *)
(***************************************************************************)
C26_ResetDeletes ==
    /\ [](JustReset => /\ ret.error = None
                       /\ CounterOf(redis, ret.arg) = [value |-> None, ttl |-> 0])
    /\ [][ret'.op = "reset" =>
              \A id \in Identifiers \ {ret'.arg} : CounterOf(redis', id) = CounterOf(redis, id)]_redis
    /\ [][(JustReset /\ ret'.op = "get_remaining" /\ ret'.arg = ret.arg)
              => (ret'.error = None /\ ret'.value = limiter.max_requests)]_<<ret.op>>
    /\ [][(JustReset /\ ret'.op = "is_allowed" /\ ret'.arg = ret.arg)
              => /\ ret'.error = None
                 /\ ret'.value = TRUE
                 /\ CounterOf(redis', ret'.arg) =
                        [value |-> "1", ttl |-> limiter.window_seconds]]_<<ret.op>>

\* reset("x") has raised AttributeError
C26_Witness ==
    /\ JustReset
    /\ ret.arg = "x"
    /\ ret.error = AttributeError
    /\ limiter.max_requests >= 2
    /\ redis = EmptyDb

(***************************************************************************)
(* cosine_similarity on the three-dimensional vectors with components in   *)
(* -1..MaxComponent whose norm is a whole number.                          *)
(***************************************************************************)
MaxComponent == 4

CosVectors ==
    {vec \in [1..3 -> -1..MaxComponent] :
        \E n \in 0..2 * MaxComponent : n * n = dot(vec, vec)}

NextCos ==
    \E vec_a \in CosVectors, vec_b \in CosVectors :
        cosine_call(vec_a, vec_b) /\ UNCHANGED otherVars

SpecCos == Init /\ [][NextCos]_vars

Abs(x) == IF x < 0 THEN -x ELSE x

(***************************************************************************)
(* C27: for vectors of one length cosine_similarity is the dot product     *)
(* divided by the product of the L2 norms (to the millionth the scores are *)
(* kept in), within [-1, 1]; it is 0, without error, when either norm is   *)
(* zero; [1,0,0] with itself gives 1.0 and with [0,1,0] gives 0.0; the     *)
(* call leaves the store as it was.                                        *)
(***************************************************************************)
C27_Cosine ==
    /\ [](ret.op = "cosine_similarity" =>
           LET a == ret.arg.vec_a
               b == ret.arg.vec_b
               norms == norm(a) * norm(b)
           IN /\ ret.error = None
              /\ ret.value \in -SCORE_UNIT..SCORE_UNIT
              /\ norms = 0 => ret.value = 0
              /\ norms # 0 => Abs(ret.value * norms - dot(a, b) * SCORE_UNIT) < norms
              /\ (a = <<1, 0, 0>> /\ b = <<1, 0, 0>>) => ret.value = SCORE_UNIT
              /\ (a = <<1, 0, 0>> /\ b = <<0, 1, 0>>) => ret.value = 0
              /\ (norms # 0 /\ a = b) => ret.value = SCORE_UNIT
              /\ redis = EmptyDb
              /\ mem = EmptyMem)
    /\ [][ret'.op = "cosine_similarity" => UNCHANGED <<redis, mem, next_uuid, proc>>]_<<redis, mem, next_uuid, proc>>

\* two vectors neither parallel nor orthogonal were compared
C27_Witness ==
    /\ ret.op = "cosine_similarity"
    /\ ret.arg.vec_a = <<3, 4, 0>>
    /\ ret.arg.vec_b = <<4, 3, 0>>
    /\ ret.value = 960000

\* a vector was compared with the zero vector
C27_WitnessZero ==
    /\ ret.op = "cosine_similarity"
    /\ ret.arg.vec_a = <<0, 0, 0>>
    /\ ret.arg.vec_b = <<1, 2, 2>>
    /\ ret.value = 0

(***************************************************************************)
(* The two caches on one server: entries are set, read, invalidated and    *)
(* cleared.                                                                *)
(***************************************************************************)
MaxEntries == 2

MissSettings ==
    Unbuilt([redis_enabled : {TRUE}, query_cache_ttl : 1..MaxTtl, embedding_cache_ttl : 1..MaxTtl])

InitMiss == InitStore /\ InitLimiter({DefaultLimiter}) /\ InitOther /\ svc \in MissSettings

NextMiss ==
    \/ \E text \in Questions, embedding \in CacheEmbs, ttl \in {NoTtl, Ttl(1)} :
           /\ \/ [text |-> text] \in DOMAIN cache_log
              \/ Cardinality(DOMAIN cache_log) < MaxEntries
           /\ emb_cache_set(text, embedding, ttl)
    \/ \E text \in Questions : emb_cache_get(text)
    \/ \E text \in Questions : emb_cache_invalidate(text)
    \/ \E p \in SeqProcs : emb_cache_clear_all(p)
    \/ \E collection \in CacheCollections, question \in Questions, top_k \in TopKs,
          result \in CachedResults, ttl \in {NoTtl, Ttl(1)} :
           /\ \/ QueryEntry(collection, question, top_k) \in DOMAIN cache_log
              \/ Cardinality(DOMAIN cache_log) < MaxEntries
           /\ qc_cache_set(collection, question, result, top_k, ttl)
    \/ \E collection \in CacheCollections, question \in Questions, top_k \in TopKs :
           qc_cache_get(collection, question, top_k)
    \/ \E collection \in CacheCollections, question \in Questions, top_k \in TopKs :
           qc_cache_invalidate(collection, question, top_k)
    \/ \E p \in SeqProcs, collection \in CacheCollections : qc_cache_clear_collection(p, collection)
    \/ \E p \in SeqProcs, collection \in CacheCollections : qc_cache_clear_all(p, collection)
    \/ \E key \in ManagerKeys, value \in ManagerValues : manager_set(key, value, 0, "")
    \/ \E key \in IncrKeys : BelowMaxCount(key) /\ manager_incr(key, "")
    \/ \E p \in SeqProcs, prefix \in FlushPrefixes : manager_flush_prefix(p, prefix)
    \/ \E p \in SeqProcs : flush_prefix_delete(p)

SpecMiss == InitMiss /\ [][NextMiss]_vars

\* the key a call on a cache object was about
KeyOf(call) ==
    IF call.on = "emb" THEN emb_make_key(embedding_cache, call.arg.text)
    ELSE qc_make_key(RedisQueryCache(call.arg.collection), call.arg.query, call.arg.top_k)

\* what the server holds under a key
Held(db, key) ==
    [value |-> IF key \in DOMAIN db.data THEN db.data[key] ELSE [json |-> None],
     ttl |-> IF key \in DOMAIN db.ttl THEN db.ttl[key] ELSE 0]

(***************************************************************************)
(* C29: a get (of either cache) for a key that was never set, has expired  *)
(* or was removed by invalidate or clear_all returns None, without         *)
(* raising; a get leaves the server as it was; the get that follows        *)
(* invalidate(key) misses, and invalidate leaves every other key as it     *)
(* was.                                                                    *)
(***************************************************************************)
C29_MissIsNone ==
    /\ []((cache_ret.op = "get" /\ ~Alive(cache_ret.arg))
              => (cache_ret.error = None /\ ~cache_ret.hit /\ cache_ret.value = None))
    /\ [][cache_ret'.op = "get" => redis' = redis]_redis
    /\ [][(cache_ret.op = "invalidate" /\ cache_ret'.op = "get" /\ cache_ret'.on = cache_ret.on
           /\ cache_ret'.arg = cache_ret.arg)
              => (/\ cache_ret'.error = None
                  /\ ~cache_ret'.hit
                  /\ ~r_exists(redis', KeyOf(cache_ret')))]_<<cache_ret.op>>
    /\ [][cache_ret'.op = "invalidate"
              => \A key \in (DOMAIN redis.data \cup DOMAIN redis'.data) \ {KeyOf(cache_ret')} :
                     Held(redis', key) = Held(redis, key)]_redis

\* a get of the query cache for a key that was never set has raised
\* AttributeError
C29_Witness ==
    /\ cache_ret.on = "query"
    /\ cache_ret.op = "get"
    /\ cache_ret.error = AttributeError
    /\ cache_ret.arg \notin DOMAIN cache_log
    /\ redis = EmptyDb

\* a get of the embedding cache for a text that was never set has raised
\* AttributeError
C29_WitnessNeverSet ==
    /\ cache_ret.on = "emb"
    /\ cache_ret.op = "get"
    /\ cache_ret.error = AttributeError
    /\ cache_ret.arg \notin DOMAIN cache_log

(***************************************************************************)
(* The end-to-end scenario in units of 100 characters: a document of       *)
(* ScenarioLen characters, made of the letter a and one of a full stop, a  *)
(* space and a line break, goes through split_documents of a splitter      *)
(* built with chunk_size ScenarioChunk and chunk_overlap ScenarioOverlap.   *)
(***************************************************************************)
ScenarioLen == 12
ScenarioChunk == 5
ScenarioOverlap == 1

ScenarioMarks == {".", " ", "\n"}

\* every text over an alphabet of length n
RECURSIVE TextsOver(_, _)
TextsOver(alphabet, n) ==
    IF n = 0 THEN {""}
    ELSE {t \o c : t \in TextsOver(alphabet, n - 1), c \in alphabet}

ScenarioTexts == UNION {TextsOver({"a", mark}, ScenarioLen) : mark \in ScenarioMarks}

NextScenario ==
    \/ \E separators \in SeparatorArgs :
           splitter_init(separators, ScenarioChunk, ScenarioOverlap)
    \/ \E text \in ScenarioTexts :
           split_documents(<<Document(text, [source |-> "s1"])>>)

SpecScenario == Init /\ [][NextScenario]_vars

\* the scenario's outcome: three chunks numbered 0, 1, 2 of 3, each after the
\* first beginning with the last chunk_overlap characters of the one before
ThreeChunks(result) ==
    /\ Len(result) = 3
    /\ \A i \in 1..3 :
           /\ result[i].metadata.chunk_count = 3
           /\ result[i].metadata.chunk_index = i - 1
    /\ \A i \in 2..3 :
           LET previous == result[i - 1].page_content
               chunk == result[i].page_content
           IN /\ Len(chunk) >= splitter.chunk_overlap
              /\ Len(previous) >= splitter.chunk_overlap
              /\ SubSeq(chunk, 1, splitter.chunk_overlap)
                     = SubSeq(previous, Len(previous) - splitter.chunk_overlap + 1, Len(previous))

ScenarioRun == split_ret.called /\ "result" \in DOMAIN split_ret

\* the document holds no whitespace: no separator occurs and strip() removes nothing
NoWhitespace(text) == \A i \in 1..Len(text) : char(text, i) \notin Whitespace

(***************************************************************************)
(* C30: a document of 1200 characters, whatever its content, split with    *)
(* chunk_size 500 and chunk_overlap 100 through split_documents gives 3    *)
(* chunks, each with chunk_count 3, with chunk_index 0, 1, 2 in order,     *)
(* each chunk's head repeating the tail of the chunk before over at least  *)
(* chunk_overlap characters.                                               *)
(***************************************************************************)
C30_Scenario ==
    ScenarioRun => ThreeChunks(split_ret.result)

(***************************************************************************)
(* C30, for a document that holds no whitespace: the same outcome.         *)
(***************************************************************************)
C30_ScenarioNoWhitespace ==
    (ScenarioRun /\ NoWhitespace(split_ret.documents[1].page_content))
        => /\ ThreeChunks(split_ret.result)
           /\ Len(split_ret.result[1].page_content) = ScenarioChunk
           /\ Len(split_ret.result[2].page_content) = ScenarioChunk
           /\ Len(split_ret.result[3].page_content)
                  = ScenarioLen - ScenarioChunk - (ScenarioChunk - ScenarioOverlap) + ScenarioOverlap

\* a document without whitespace went through and came out in three chunks
C30_Witness ==
    /\ ScenarioRun
    /\ split_ret.documents[1].page_content = "aaaa.aaaaaa."
    /\ Len(split_ret.result) = 3
    /\ split_ret.result[2].page_content = ".aaaa"

\* a document with one space near its end came out in four chunks
C30_WitnessFour ==
    /\ ScenarioRun
    /\ split_ret.documents[1].page_content = "aaaaaaaaaa a"
    /\ Len(split_ret.result) = 4

(***************************************************************************)
(* _merge_splits on lists of up to MaxPieces pieces, for every splitter of *)
(* the bounds.                                                             *)
(***************************************************************************)
MaxPieces == 4

Pieces == {"a", "b", "ab", "abc"}

NextMerge ==
    \/ \E separators \in SeparatorArgs, chunk_size \in 1..MaxChunk, chunk_overlap \in 0..MaxChunk :
           splitter_init(separators, chunk_size, chunk_overlap)
    \/ \E splits \in SeqsUpTo(Pieces, MaxPieces) : merge_splits(splits)

SpecMerge == Init /\ [][NextMerge]_vars

MergeRun == split_ret.called /\ "merged" \in DOMAIN split_ret

\* current_chunk when the loop reaches the k-th piece
BufferAt(k) == merge_loop(splitter, SubSeq(split_ret.splits, 1, k - 1), "", <<>>, <<>>).current_chunk

\* the chunks closed when the loop reaches the k-th piece
ClosedAt(k) == merge_loop(splitter, SubSeq(split_ret.splits, 1, k - 1), "", <<>>, <<>>).chunks

\* the k-th piece closes a chunk: with it the buffer would pass chunk_size
Closes(k) ==
    /\ BufferAt(k) # <<>>
    /\ total_length(BufferAt(k)) + Len(split_ret.splits[k]) > splitter.chunk_size

\* the pieces the new chunk starts with, before the k-th piece is appended
Seed(k) == SubSeq(BufferAt(k + 1), 1, Len(BufferAt(k + 1)) - 1)

\* seed is the shortest suffix of pieces that is at least chunk_overlap long
ShortestSuffix(seed, pieces) ==
    /\ Len(seed) <= Len(pieces)
    /\ seed = SubSeq(pieces, Len(pieces) - Len(seed) + 1, Len(pieces))
    /\ total_length(seed) >= splitter.chunk_overlap
    /\ seed # <<>> => total_length(Tail(seed)) < splitter.chunk_overlap

\* the chunk that follows the one the k-th piece closed begins with seed
BeginsWith(chunk, seed) ==
    /\ Len(chunk) >= Len(join("", seed))
    /\ SubSeq(chunk, 1, Len(join("", seed))) = join("", seed)

SeededAsClaimed(k) ==
    /\ ShortestSuffix(Seed(k), BufferAt(k))
    /\ Len(ClosedAt(k + 1)) = Len(ClosedAt(k)) + 1
    /\ ClosedAt(k + 1)[Len(ClosedAt(k + 1))] = join("", BufferAt(k))
    /\ BeginsWith(split_ret.merged[Len(ClosedAt(k + 1)) + 1], Seed(k))

(***************************************************************************)
(* C31: whenever _merge_splits closes a chunk because the next piece would *)
(* push the buffer above chunk_size, the next chunk starts with the        *)
(* shortest suffix of the closed chunk's pieces whose total length is at   *)
(* least chunk_overlap, so that the two chunks share at least              *)
(* chunk_overlap characters.                                               *)
(***************************************************************************)
C31_MergeOverlap ==
    MergeRun => \A k \in 1..Len(split_ret.splits) : Closes(k) => SeededAsClaimed(k)

\* the same, for the chunks closed with at least chunk_overlap characters in
\* them and a chunk_overlap of at least 1
C31_MergeOverlapLongEnough ==
    MergeRun =>
        \A k \in 1..Len(split_ret.splits) :
            (/\ Closes(k)
             /\ splitter.chunk_overlap >= 1
             /\ total_length(BufferAt(k)) >= splitter.chunk_overlap) => SeededAsClaimed(k)

\* a chunk shorter than chunk_overlap was closed and the next one starts afresh
C31_Witness ==
    /\ MergeRun
    /\ splitter.chunk_size = 4
    /\ splitter.chunk_overlap = 3
    /\ split_ret.splits = <<"ab", "abc">>
    /\ split_ret.merged = <<"ab", "abc">>

\* where a step stands among the steps of the last query, 0 when it was not made
RECURSIVE PositionIn(_, _)
PositionIn(steps, names) ==
    IF steps = <<>> THEN 0
    ELSE IF steps[Len(steps)] \in names /\ PositionIn(SubSeq(steps, 1, Len(steps) - 1), names) = 0
    THEN Len(steps)
    ELSE PositionIn(SubSeq(steps, 1, Len(steps) - 1), names)

Made(call, names) == PositionIn(call.steps, names) # 0

\* the last query was made with use_cache and called get on the query cache
AskedCache(call) ==
    /\ call.op = "query"
    /\ call.arg.use_cache
    /\ Made(call, {"query_cache.get"})

\* the last query found its result in the query cache
HitCache(call) == AskedCache(call) /\ Answered(call) /\ call.value._from_cache

\* the last query asked the query cache, got nothing and found documents
MissedWithCache(call) ==
    /\ AskedCache(call)
    /\ Answered(call)
    /\ ~call.value._from_cache
    /\ call.value.answer # NO_INFO

\* the key the query cache of the service keeps a question under, lines 54-64
QueryKey(call) ==
    QC_PREFIX \o ":" \o query_cache.collection \o ":"
        \o sha256_16(query_cache.collection \o ":" \o call.arg.question \o ":"
                         \o str(call.arg.top_k))

(***************************************************************************)
(* C32: in query with use_cache, a query-cache hit returns the cached      *)
(* payload marked _from_cache = True and calls neither the embedding       *)
(* function, nor the store search, nor the generation function; a miss     *)
(* with at least one search result embeds, searches, generates and sets    *)
(* the cache in this order, so that the same question and top_k asked      *)
(* again before the TTL has elapsed is a hit.                              *)
(***************************************************************************)
C32_FlowOrder ==
    /\ [](AskedCache(svc_ret) => Answered(svc_ret))
    /\ [](HitCache(svc_ret) => svc_ret.steps = <<"query_cache.get">>)
    /\ [][HitCache(svc_ret')
              => /\ r_exists(redis, QueryKey(svc_ret'))
                 /\ svc_ret'.value = [rm_get(redis, QueryKey(svc_ret')) EXCEPT !._from_cache = TRUE]
                 /\ redis' = redis]_<<svc_ret.calls>>
    /\ [](MissedWithCache(svc_ret)
              => LET embedded == PositionIn(svc_ret.steps, {"embedding_cache.get", "embed"})
                     searched == PositionIn(svc_ret.steps, {"similarity_search"})
                     generated == PositionIn(svc_ret.steps, {"llm"})
                     cached == PositionIn(svc_ret.steps, {"query_cache.set"})
                 IN /\ 0 < embedded
                    /\ embedded < searched
                    /\ searched < generated
                    /\ generated < cached
                    /\ cached = Len(svc_ret.steps))
    /\ [][(/\ HitCache(svc_ret) \/ MissedWithCache(svc_ret)
           /\ svc_ret'.op = "query"
           /\ svc_ret'.arg.question = svc_ret.arg.question
           /\ svc_ret'.arg.top_k = svc_ret.arg.top_k
           /\ svc_ret'.arg.use_cache
           /\ redis' = redis \/ svc_ret'.calls # svc_ret.calls)
              => HitCache(svc_ret')]_<<svc_ret.calls>>

\* a query made with use_cache on a service with a query cache ended with
\* the exception of query_cache.get: neither a hit nor a miss
C32_Witness ==
    /\ AskedCache(svc_ret)
    /\ svc._query_cache
    /\ svc.backend_up
    /\ svc_ret.value = Failure(AttributeError)
    /\ svc_ret.steps = <<"query_cache.get">>

\* the same query asked twice ended twice with that exception
C32_WitnessRepeated ==
    /\ C32_Witness
    /\ svc_ret.calls = 2

(***************************************************************************)
(* check_rate_limit on a server that stops answering and answers again,    *)
(* before the limiter is built or after.                                   *)
(***************************************************************************)
RateSettings ==
    Unbuilt([redis_enabled : BOOLEAN, query_cache_ttl : {MaxTtl}, embedding_cache_ttl : {MaxTtl}])

InitRate == InitStore /\ InitLimiter(Limiters) /\ InitOther /\ svc \in RateSettings

NextRate ==
    \/ \E identifier \in Identifiers, lost \in BOOLEAN :
           (lost => svc.backend_up) /\ check_rate_limit(identifier, lost)
    \/ backend_fails
    \/ backend_recovers

SpecRate == InitRate /\ [][NextRate]_vars

RateChecked == svc_ret.op = "check_rate_limit"

(***************************************************************************)
(* C33: check_rate_limit never raises when the backend connection fails:   *)
(* it returns allowed = True, with no limiting, whether the failure        *)
(* happens when the limiter is first created or on a later is_allowed or   *)
(* get_remaining call.                                                     *)
(***************************************************************************)
C33_RateLimitDegrades ==
    (RateChecked /\ ~svc.backend_up) => (Answered(svc_ret) /\ svc_ret.value.allowed)

\* the same, for a failure at the time the limiter would be created
C33_DegradesAtCreation ==
    (RateChecked /\ ~svc._rate_limiter)
        => svc_ret.value = [allowed |-> TRUE, remaining |-> -1]

\* the limiter was built, the server stopped answering, the call raised
C33_Witness ==
    /\ RateChecked
    /\ svc._rate_limiter
    /\ ~svc.backend_up
    /\ svc_ret.value = Failure(AttributeError)

\* the server did not answer when the limiter was to be built: no limiting
C33_WitnessCreation ==
    /\ RateChecked
    /\ svc.redis_enabled
    /\ ~svc._rate_limiter
    /\ ~svc.backend_up
    /\ svc_ret.value = [allowed |-> TRUE, remaining |-> -1]

\* the calls that return the number of records they deleted
CountingOps == {"delete_by_source", "delete_collection", "clear_all"}

\* caller p returns from a counting call with this step: after the pipeline
\* of its delete, or at once with 0 when it read an empty index
ReturnsCount(p) ==
    \/ proc[p].pc = "delete" /\ proc[p].op \in CountingOps /\ proc'[p] = Idle
    \/ proc' = proc /\ ret'.caller = p /\ ret'.op \in CountingOps

\* the records the step removed from the store
RemovedRecords == StoredIds(redis) \ StoredIds(redis')

(***************************************************************************)
(* C37: the count returned by delete_by_source, delete_collection and      *)
(* clear_all is the number of records the call removed, also when two such *)
(* calls, or such a call and an add_documents or a delete, overlap in time *)
(* on the same collection or source.                                       *)
(***************************************************************************)
C37_CountIsRemoved ==
    [][\A p \in Procs :
           ReturnsCount(p)
               => (ret'.error = None /\ ret'.value = Cardinality(RemovedRecords))]_<<proc, ret.op, ret.caller>>

\* clear_all has raised AttributeError while another caller is inside delete
C37_Witness ==
    \E p \in Procs :
        /\ proc[p].pc = "delete"
        /\ ret.caller # p
        /\ ret.op = "clear_all"
        /\ ret.error = AttributeError

(***************************************************************************)
(* C38: with chunk_overlap = 0, _merge_splits repeats nothing: every input *)
(* piece appears in exactly one output chunk, and the concatenation of the *)
(* chunks is the concatenation of the input pieces.                        *)
(***************************************************************************)
C38_NoRepeatWithoutOverlap ==
    (MergeRun /\ splitter.chunk_overlap = 0)
        => join("", split_ret.merged) = join("", split_ret.splits)

\* the same, for the lists of pieces that fit one chunk
C38_NoRepeatInOneChunk ==
    (MergeRun /\ splitter.chunk_overlap = 0
         /\ total_length(split_ret.splits) <= splitter.chunk_size)
        => split_ret.merged = IF split_ret.splits = <<>> THEN <<>>
                              ELSE <<join("", split_ret.splits)>>

\* without overlap, the piece that ended the first chunk starts the second
C38_Witness ==
    /\ MergeRun
    /\ splitter.chunk_size = 2
    /\ splitter.chunk_overlap = 0
    /\ split_ret.splits = <<"a", "b", "a">>
    /\ split_ret.merged = <<"ab", "ba">>

\* split_text has returned
SplitRun == split_ret.called /\ "chunks" \in DOMAIN split_ret

\* every chunk is a run of consecutive characters of the text
ChunksAreSubstrings ==
    \A i \in 1..Len(split_ret.chunks) : contains(split_ret.text, split_ret.chunks[i])

(***************************************************************************)
(* C39: every chunk returned by split_text (keep_separator at its default) *)
(* is a contiguous substring of the input text: the separators that are    *)
(* re-appended never put a separator character where the input has none.   *)
(***************************************************************************)
C39_ChunksAreSubstrings == SplitRun => ChunksAreSubstrings

\* the same, for the texts without a ". "
C39_SubstringsWithoutSentences ==
    (SplitRun /\ ~contains(split_ret.text, ". ")) => ChunksAreSubstrings

\* the last sentence of a text came back with a full stop the text does not end with
C39_Witness ==
    /\ SplitRun
    /\ splitter.chunk_size = 4
    /\ splitter.chunk_overlap = 0
    /\ split_ret.text = "a. b"
    /\ split_ret.chunks = <<"a.", "a. b.">>

(***************************************************************************)
(* IngestionService (src/api/services/ingestion.py).  A file is its name   *)
(* and its text; the copy save_uploaded_file writes under uploads_dir is   *)
(* outside the store and is left out, and so is the message of the result. *)
(* The text splitter is built from settings.chunk_size and                 *)
(* settings.chunk_overlap, 500 and 100, kept here at the scale of 1 : 100. *)
(***************************************************************************)
SUPPORTED_EXTENSIONS ==
    [ext \in {".txt", ".md", ".pdf", ".docx", ".xlsx", ".pptx"} |->
        CASE ext \in {".txt", ".md"} -> "text"
          [] ext = ".pdf" -> "pdf"
          [] ext = ".docx" -> "docx"
          [] ext = ".xlsx" -> "excel"
          [] ext = ".pptx" -> "pptx"]

UPLOADS_DIR == "data/uploads"

\* Path(filename).name: the last component of the path, empty and "."
\* components left out
path_name(filename) ==
    LET kept == SelectSeq(str_split(filename, "/"), LAMBDA part : part \notin {"", "."})
    IN IF kept = <<>> THEN "" ELSE kept[Len(kept)]

\* Path(filename).suffix: the name from its last dot on, when that dot is
\* neither the first nor the last character of the name
suffix(filename) ==
    LET name == path_name(filename)
        dots == {i \in 1..Len(name) : char(name, i) = "."}
        last == CHOOSE i \in dots : \A j \in dots : j <= i
    IN IF dots # {} /\ 1 < last /\ last < Len(name) THEN SubSeq(name, last, Len(name)) ELSE ""

\* str.lower() of one character and of a text
lower_char(c) ==
    LET upper == "ABCDEFGHIJKLMNOPQRSTUVWXYZ"
        small == "abcdefghijklmnopqrstuvwxyz"
    IN IF \E i \in 1..Len(upper) : char(upper, i) = c
       THEN char(small, CHOOSE i \in 1..Len(upper) : char(upper, i) = c)
       ELSE c

RECURSIVE lower(_)
lower(text) ==
    IF text = "" THEN "" ELSE lower_char(char(text, 1)) \o lower(SubSeq(text, 2, Len(text)))

\* the service object: its constructor binds the three lazy members only
IngestionService ==
    [_embedding_model |-> None, _vector_store |-> None, _text_splitter |-> None]

\* self.SUPPORTED_EXTENSIONS.get(ext), line 99.  SUPPORTED_EXTENSIONS is a
\* name of the module (line 21), so the read through self raises.
detect_file_type(filename) ==
    IF "SUPPORTED_EXTENSIONS" \in DOMAIN IngestionService
    THEN dict_get(getattr(IngestionService, "SUPPORTED_EXTENSIONS"), lower(suffix(filename)),
                  None)
    ELSE AttributeError

\* the path save_uploaded_file returns
uploaded_path(filename, collection) == UPLOADS_DIR \o "/" \o collection \o "/" \o filename

\* TextLoader(str(file_path)).load(): one Document with the text of the file
load_document(file_path, filename, text) ==
    <<Document(text, [source |-> file_path, file_name |-> filename])>>

\* the optional metadata argument: None, or a dict
NoMetadata == [given |-> FALSE]
Metadata(dict) == [given |-> TRUE, dict |-> dict]

\* step 4: the collection, then the caller's metadata, written into each document
with_collection(documents, collection, metadata) ==
    [i \in 1..Len(documents) |->
        Document(documents[i].page_content,
                 IF metadata.given
                 THEN metadata.dict @@ [collection |-> collection] @@ documents[i].metadata
                 ELSE [collection |-> collection] @@ documents[i].metadata)]

\* the text_splitter property, lines 84-91: the splitter is built without a
\* separators argument
text_splitter == splitter_object(NoSeparators, ScenarioChunk, ScenarioOverlap)

\* the splitter the property would return were the separators of line 6 its own
text_splitter_with_separators ==
    splitter_object(DEFAULT_SEPARATORS, ScenarioChunk, ScenarioOverlap)

\* step 5: split_documents of a text splitter
RECURSIVE ingest_chunks(_, _)
ingest_chunks(self, documents) ==
    IF documents = <<>> THEN <<>>
    ELSE chunk_documents(Head(documents),
                         _split_text(self, Head(documents).page_content, self.separators))
         \o ingest_chunks(self, Tail(documents))

\* step 6: embed_batch, one embedding per chunk
embed_batch(texts) == [i \in 1..Len(texts) |-> <<1, 0>>]

\* the dicts ingest_file returns, lines 158-164, 206-212 and 214-220
IngestResult(status, message, document_ids, chunk_count, filename) ==
    [status |-> status, message |-> message, document_ids |-> document_ids,
     chunk_count |-> chunk_count, source |-> filename]

\* the dict of the except clause, message the str() of the exception
IngestError(filename, message) == IngestResult("error", message, <<>>, 0, filename)

\* what goes wrong during a call: nothing, the loader raises, embed_batch
\* raises, or pipe.execute() raises
IngestFaults == {"none", "loader", "embedding", "store"}

\* str(e) of the exception a fault raises
FaultText(fault) ==
    CASE fault = "loader" -> "No such file or directory"
      [] fault = "embedding" -> "embedding model not available"
      [] fault = "store" -> "Timeout reading from socket"

\* str(e) of the AttributeError a read of self.<name> raises
NoAttribute(class, name) == "'" \o class \o "' object has no attribute '" \o name \o "'"

\* ingest_file(file, filename, collection, metadata).  detect_file_type is
\* called before the try, so what it raises leaves ingest_file; everything
\* raised from step 2 on is turned into the error dict.  When pipe.execute()
\* raises, the server has applied some of the queued commands: none of them,
\* a part of them, or all of them with the reply lost.
ingest_file(p, text, filename, collection, metadata, fault) ==
    LET arg == [text |-> text, filename |-> filename, collection |-> collection,
                metadata |-> metadata, fault |-> fault]
        file_type == detect_file_type(filename)
        documents == with_collection(load_document(uploaded_path(filename, collection),
                                                   filename, text),
                                     collection, metadata)
        chunks == ingest_chunks(text_splitter, documents)
        embeddings == embed_batch([i \in 1..Len(chunks) |-> chunks[i].page_content])
        doc_ids == [i \in 1..Len(chunks) |-> uuid4(next_uuid + i)]
    IN /\ proc[p] = Idle
       /\ IF file_type = AttributeError
          THEN /\ ret' = Raised("ingestion", p, "ingest_file", arg, AttributeError)
               /\ UNCHANGED <<redis, next_uuid>>
          ELSE IF file_type = None
          THEN /\ ret' = Returned("ingestion", p, "ingest_file", arg,
                                  IngestError(filename,
                                              "Unsupported file type: " \o suffix(filename)),
                                  FALSE)
               /\ UNCHANGED <<redis, next_uuid>>
          ELSE IF fault = "loader" \/ ~text_splitter.built \/ fault = "embedding"
          THEN /\ ret' = Returned("ingestion", p, "ingest_file", arg,
                                  IngestError(filename,
                                              IF fault = "loader" THEN FaultText(fault)
                                              ELSE IF ~text_splitter.built
                                              THEN NoAttribute("RecursiveCharacterTextSplitter",
                                                               "DEFAULT_SEPARATORS")
                                              ELSE FaultText(fault)),
                                  FALSE)
               /\ UNCHANGED <<redis, next_uuid>>
          ELSE \E stamps \in Nows(Len(chunks)) :
               LET turn == raising_turn(next_uuid + 1, chunks, embeddings, collection, stamps)
                   pipe == add_pipe(next_uuid + 1, chunks, embeddings, collection, stamps)
               IN IF turn # 0
                  THEN /\ next_uuid' = next_uuid + turn
                       /\ ret' = Returned("ingestion", p, "ingest_file", arg,
                                          IngestError(filename,
                                                      NoAttribute("RedisVectorStore", "PREFIX")),
                                          FALSE)
                       /\ UNCHANGED redis
                  ELSE IF fault = "store"
                  THEN /\ chunks # <<>>
                       /\ \E applied \in SUBSET (1..Len(pipe)) :
                              redis' = pipe_execute(redis, pick_commands(pipe, applied, 1))
                       /\ next_uuid' = next_uuid + Len(chunks)
                       /\ ret' = Returned("ingestion", p, "ingest_file", arg,
                                          IngestError(filename, FaultText(fault)), FALSE)
                  ELSE /\ redis' = pipe_execute(redis, pipe)
                       /\ next_uuid' = next_uuid + Len(chunks)
                       /\ ret' = Returned("ingestion", p, "ingest_file", arg,
                                          IngestResult("success",
                                                       "Successfully ingested " \o filename,
                                                       doc_ids, Len(chunks), filename),
                                          FALSE)
       /\ UNCHANGED <<proc, mem>>
       /\ UNCHANGED otherVars

(***************************************************************************)
(* One caller ingests files into the collections A and B.                  *)
(***************************************************************************)
MaxIngestIds == 2

IngestTexts == {"", "ab", "abcdef"}
IngestNames == {"f.txt", "f.md", "f.exe"}
IngestMetadata == {NoMetadata, Metadata([author |-> "x"])}

NextIngest ==
    \E p \in SeqProcs, text \in IngestTexts, filename \in IngestNames, collection \in {"A", "B"},
       metadata \in IngestMetadata, fault \in IngestFaults :
        /\ next_uuid + Len(ingest_chunks(text_splitter_with_separators,
                                         load_document("", filename, text))) <= MaxIngestIds
        /\ ingest_file(p, text, filename, collection, metadata, fault)

SpecIngest == Init /\ [][NextIngest]_vars

\* the ids of the result are new, one per chunk, and their records are what
\* the step added, each under the requested collection
StoredAsReturned ==
    LET ids == Range(ret'.value.document_ids)
    IN /\ ret'.value.chunk_count = Len(ret'.value.document_ids)
       /\ Cardinality(ids) = Len(ret'.value.document_ids)
       /\ ids \cap StoredIds(redis) = {}
       /\ StoredIds(redis') = StoredIds(redis) \cup ids
       /\ \A id \in ids :
              /\ RecordOf(redis', id).collection = ret'.arg.collection
              /\ id \in r_smembers(redis', CollectionKey(ret'.arg.collection))
              /\ id \in r_smembers(redis', AllDocsKey)

\* a call returns a dict: a success, or an error without ids
ResultShape ==
    ret.op = "ingest_file"
        => /\ ret.error = None
           /\ \/ ret.value.status = "success"
                 /\ ret.value.chunk_count = Len(ret.value.document_ids)
              \/ /\ ret.value.status = "error"
                 /\ ret.value.document_ids = <<>>
                 /\ ret.value.chunk_count = 0

(***************************************************************************)
(* C40: ingest_file is all-or-nothing with respect to the store: it        *)
(* returns status "success" with one document id per chunk, all stored     *)
(* under the requested collection, or status "error" with no document ids  *)
(* and no record added to the store; an unsupported file type, a loader,   *)
(* embedding or store failure never leaves a subset of the file's chunks   *)
(* stored.                                                                 *)
(***************************************************************************)
C40_AllOrNothing ==
    /\ []ResultShape
    /\ [][ret'.op = "ingest_file"
              => IF ret'.error = None /\ ret'.value.status = "success" THEN StoredAsReturned
                 ELSE redis' = redis]_<<redis, next_uuid>>

\* ingest_file of a text file ended with AttributeError and returned no dict
C40_Witness ==
    /\ ret.op = "ingest_file"
    /\ ret.arg.filename = "f.txt"
    /\ ret.arg.text = "abcdef"
    /\ ret.arg.fault = "none"
    /\ ret.error = AttributeError
    /\ StoredIds(redis) = {}

\* so did ingest_file of a file whose type is not supported
C40_WitnessUnsupported ==
    /\ ret.op = "ingest_file"
    /\ ret.arg.filename = "f.exe"
    /\ ret.error = AttributeError

====
